---- MODULE Spec2Model ----
(***************************************************************************)
(* The client-side state machine of the YTSync plugin: class Player of     *)
(* src/unnamed/part_001 (lines 15-444), its message handler, its queue,    *)
(* roster, autoplay flag and the commands it gives the YouTube player,     *)
(* and the senders of class SyncSocket of src/unnamed/part_000.            *)
(*                                                                         *)
(* The program state is the record State; every handler of the class is an *)
(* operator from a state record (and the handler's input) to the state     *)
(* record after the handler has run to completion, and every action of the *)
(* next-state relation applies one handler.                                *)
(*                                                                         *)
(* Times are JavaScript numbers, in seconds: IEEE 754 doubles, held by the  *)
(* decimal digits of their exact value. A Video is modelled by its videoId *)
(* and title; the byline is carried exactly like the title and is left     *)
(* out.                                                                    *)
(***************************************************************************)
EXTENDS Integers, Sequences, FiniteSets, TLC

\* ------------------------------------------------------------- bounds ---
MaxQueue == 2       \* longest queue (and longest QUEUE snapshot)
MaxClients == 3     \* longest roster (and longest CLIENTS list)
MaxTime == 3        \* largest position the user and the playing reach, in half seconds
NavQueue == 1       \* longest queue where the user navigates too
LoopQueue == 3      \* longest queue where video after video ends
MaxToggles == 2     \* autoplay toggles of the users of a session, in all

\* ---------------------------------------------------------- constants ---
Margin == 1         \* syncPlayerTime's default margin, 1.0 s

VideoIds == {"A", "B"}
Titles == {"t1"}
SocketIds == {"s1", "s2"}
NoParam == "null"   \* URLSearchParams.get('v') === null

PlayerStates == {"UNSTARTED", "ENDED", "PLAYING", "PAUSED", "BUFFERING", "CUED"}

\* Message (enum/message): the kinds the protocol names.
Message ==
  {"play", "pause", "seek", "play-video", "add-to-queue", "remove-from-queue",
   "queue", "autoplay", "clients", "client-connect", "client-disconnect",
   "reaction", "promote", "unpromote"}

\* ------------------------------------------------------- JSON values ---
\* A JSON value carries its type, as the handlers read properties of it.
JNull == [t |-> "null"]
JStr(s) == [t |-> "str", s |-> s]
JNum(chars) == [t |-> "numstr", chars |-> chars]
JBool(b) == [t |-> "bool", b |-> b]
JVideo(id, title) == [t |-> "video", videoId |-> id, title |-> title]
JQueue(video, videos) == [t |-> "queue", video |-> video, videos |-> videos]
JClient(id, promoted) == [t |-> "client", socketId |-> id, promoted |-> promoted]
JClients(list) == [t |-> "clients", list |-> list]

Videos == {JVideo(id, title) : id \in VideoIds, title \in Titles}
Clients == {JClient(id, p) : id \in SocketIds, p \in BOOLEAN}

SeqsUpTo(S, n) == UNION {[1..k -> S] : k \in 0..n}

\* ----------------------------------------------- numbers on the wire ---
\* A JavaScript number is an IEEE 754 double: NaN, an infinity, or a finite
\* value. A finite value is held by its sign and the decimal digits of its
\* exact value before and after the point (every double has finitely many):
\* 1.5 is int <<1>>, frac <<5>>; the double next to 0.1 has 55 digits after
\* the point. int has no leading and frac no trailing zero; -0 is the zero
\* with the sign set.
Num(neg, int, frac) == [k |-> "num", neg |-> neg, int |-> int, frac |-> frac]
NaN == [k |-> "NaN", neg |-> FALSE, int |-> <<>>, frac |-> <<>>]
Infinity == [k |-> "inf", neg |-> FALSE, int |-> <<>>, frac |-> <<>>]
NegInfinity == [k |-> "inf", neg |-> TRUE, int |-> <<>>, frac |-> <<>>]
Zero(neg) == Num(neg, <<>>, <<>>)

Digits == <<"0", "1", "2", "3", "4", "5", "6", "7", "8", "9">>
DigitVal(c) == (CHOOSE d \in 1..10 : Digits[d] = c) - 1
InfinityChars == <<"I", "n", "f", "i", "n", "i", "t", "y">>

\* StrWhiteSpaceChar of ECMAScript: WhiteSpace (tab, vertical tab, form feed,
\* the space separators of Unicode, no-break space, U+FEFF) and
\* LineTerminator (line feed, carriage return, U+2028, U+2029). A character
\* that has no escape in a string here is written as its JavaScript escape.
WhiteSpace ==
  {" ", "\t", "\n", "\r", "\f",
   "\\u0009", "\\u000a", "\\u000b", "\\u000c", "\\u000d", "\\u0020", "\\u00a0",
   "\\u1680", "\\u2000", "\\u2001", "\\u2002", "\\u2003", "\\u2004", "\\u2005",
   "\\u2006", "\\u2007", "\\u2008", "\\u2009", "\\u200a", "\\u2028", "\\u2029",
   "\\u202f", "\\u205f", "\\u3000", "\\ufeff"}

\* The one element of a set of one element: what is in the set is evaluated
\* once and used by its name.
The(S) == CHOOSE x \in S : TRUE
Least(S) == CHOOSE x \in S : \A y \in S : x <= y
Greatest(S) == CHOOSE x \in S : \A y \in S : x >= y
Abs(x) == IF x < 0 THEN -x ELSE x
Zeros(n) == [i \in 1..n |-> 0] \o <<>>

\* Natural numbers of any length: the sequence of the decimal digits, the
\* most significant first, without leading zeros; <<>> is 0.
stripLeading(ds) ==
  IF \A i \in DOMAIN ds : ds[i] = 0 THEN <<>>
  ELSE SubSeq(ds, Least({i \in DOMAIN ds : ds[i] # 0}), Len(ds))
stripTrailing(ds) ==
  IF \A i \in DOMAIN ds : ds[i] = 0 THEN <<>>
  ELSE SubSeq(ds, 1, Greatest({i \in DOMAIN ds : ds[i] # 0}))

\* -1, 0, 1 as a < b, a = b, a > b, for digit sequences of one length.
cmpDigits(a, b) ==
  IF a = b THEN 0
  ELSE The({IF a[i] < b[i] THEN -1 ELSE 1 :
              i \in {Least({j \in DOMAIN a : a[j] # b[j]})}})

\* The same for two natural numbers.
cmpNat(a, b) ==
  IF Len(a) # Len(b) THEN (IF Len(a) < Len(b) THEN -1 ELSE 1) ELSE cmpDigits(a, b)

\* 2 * ds: the carry into a digit comes from the next digit alone.
times2(ds) ==
  (IF ds # <<>> /\ ds[1] >= 5 THEN <<1>> ELSE <<>>)
    \o [i \in DOMAIN ds |->
          (2 * ds[i] + (IF i < Len(ds) /\ ds[i + 1] >= 5 THEN 1 ELSE 0)) % 10]

\* A natural number by limbs of 5 digits, and back.
Limb == 100000
toLimbs(ds) ==
  The({[j \in 1..(Len(p) \div 5) |->
          10000 * p[5 * j - 4] + 1000 * p[5 * j - 3] + 100 * p[5 * j - 2]
            + 10 * p[5 * j - 1] + p[5 * j]] \o <<>> :
         p \in {Zeros((5 - (Len(ds) % 5)) % 5) \o ds}})
fromLimbs(ls) ==
  stripLeading([i \in 1..(5 * Len(ls)) |->
                  (ls[(i - 1) \div 5 + 1]
                     \div <<10000, 1000, 100, 10, 1>>[((i - 1) % 5) + 1]) % 10] \o <<>>)

\* m * ls for a factor m of Limb (a power of 2 or of 5 up to the fifth):
\* m * limb is a multiple of m below m * Limb, so that what it carries into
\* the limb before does not depend on what is carried into it.
timesLimbs(ls, m) ==
  (IF ls # <<>> /\ m * ls[1] >= Limb THEN <<(m * ls[1]) \div Limb>> ELSE <<>>)
    \o [i \in DOMAIN ls |->
          ((m * ls[i]) % Limb)
            + (IF i < Len(ls) THEN (m * ls[i + 1]) \div Limb ELSE 0)]

RECURSIVE powLimbs(_, _, _)
\* ls * m^n
powLimbs(ls, m, n) ==
  IF n = 0 THEN ls
  ELSE IF n = 1 THEN timesLimbs(ls, m)
  ELSE The({powLimbs(half, m, rest) : half \in {powLimbs(ls, m, n \div 2)},
                                      rest \in {n - n \div 2}})

\* ds * 2^s and ds * 5^s: five powers at a time, then the rest.
scale2(ds, s) ==
  IF s = 0 THEN ds
  ELSE
  The({fromLimbs(timesLimbs(ls, <<1, 2, 4, 8, 16>>[(s % 5) + 1])) :
         ls \in {powLimbs(toLimbs(ds), 32, s \div 5)}})
scale5(ds, s) ==
  IF s = 0 THEN ds
  ELSE
  The({fromLimbs(timesLimbs(ls, <<1, 5, 25, 125, 625>>[(s % 5) + 1])) :
         ls \in {powLimbs(toLimbs(ds), 3125, s \div 5)}})

\* ds + 1
succ(ds) ==
  IF \A i \in DOMAIN ds : ds[i] = 9 THEN <<1>> \o Zeros(Len(ds))
  ELSE The({SubSeq(ds, 1, j - 1) \o <<ds[j] + 1>> \o Zeros(Len(ds) - j) :
              j \in {Greatest({i \in DOMAIN ds : ds[i] # 9})}})

\* a + b, and a - b for a >= b, for digit sequences of one length: the
\* carry (the borrow) into a digit is decided by the nearest digit after it
\* where the sum is not 9 (where a and b differ).
addDigits(a, b) ==
  LET after(i) == {j \in (i + 1)..Len(a) : a[j] + b[j] # 9}
      carry(i) == after(i) # {} /\ a[Least(after(i))] + b[Least(after(i))] >= 10
  IN  (IF carry(0) THEN <<1>> ELSE <<>>)
        \o [i \in DOMAIN a |-> (a[i] + b[i] + (IF carry(i) THEN 1 ELSE 0)) % 10]
subDigits(a, b) ==
  LET after(i) == {j \in (i + 1)..Len(a) : a[j] # b[j]}
      borrow(i) == after(i) # {} /\ a[Least(after(i))] < b[Least(after(i))]
  IN  [i \in DOMAIN a |-> (10 + a[i] - b[i] - (IF borrow(i) THEN 1 ELSE 0)) % 10]
        \o <<>>

\* Decimals: n / 10^p, for a natural number n and a count p of digits after
\* the point.
Dec(n, p) == [n |-> n, p |-> p]
intPart(x) == IF Len(x.n) <= x.p THEN <<>> ELSE SubSeq(x.n, 1, Len(x.n) - x.p)
fracPart(x) ==
  IF Len(x.n) <= x.p THEN Zeros(x.p - Len(x.n)) \o x.n
  ELSE SubSeq(x.n, Len(x.n) - x.p + 1, Len(x.n))

\* The digits of x and of y with one count of digits after the point and of
\* one length.
aligned(x, y) ==
  LET p == IF x.p > y.p THEN x.p ELSE y.p
      a == x.n \o Zeros(p - x.p)
      b == y.n \o Zeros(p - y.p)
      len == IF Len(a) > Len(b) THEN Len(a) ELSE Len(b)
  IN  [a |-> Zeros(len - Len(a)) \o a, b |-> Zeros(len - Len(b)) \o b, p |-> p]

cmpDec(x, y) == The({cmpDigits(l.a, l.b) : l \in {aligned(x, y)}})
addDec(x, y) ==
  The({Dec(stripLeading(addDigits(l.a, l.b)), l.p) : l \in {aligned(x, y)}})
\* |x - y|
distDec(x, y) ==
  The({Dec(stripLeading(IF cmpDigits(l.a, l.b) >= 0 THEN subDigits(l.a, l.b)
                        ELSE subDigits(l.b, l.a)), l.p) :
         l \in {aligned(x, y)}})

\* x * 2^s, exactly: a division by 2 is a multiplication by 5 and one more
\* digit after the point.
scaleBy(x, s) ==
  IF s >= 0 THEN Dec(scale2(x.n, s), x.p) ELSE Dec(scale5(x.n, -s), x.p - s)

\* The integer next to x; of two that are as near, the even one.
roundHalfEven(x) ==
  The({IF f # <<>> /\ (f[1] > 5
                        \/ (f[1] = 5 /\ ((\E j \in 2..Len(f) : f[j] # 0)
                                            \/ (i # <<>> /\ i[Len(i)] % 2 = 1))))
       THEN succ(i) ELSE i :
         i \in {intPart(x)}, f \in {fracPart(x)}})

\* The finite number of a sign and a decimal, and the decimal of the
\* magnitude of a finite number.
numOf(neg, x) == Num(neg, intPart(x), stripTrailing(fracPart(x)))
decOf(v) == Dec(stripLeading(v.int \o v.frac), Len(v.frac))

\* 2^52 and 2^53: a double has 53 bits.
P52 == <<4, 5, 0, 3, 5, 9, 9, 6, 2, 7, 3, 7, 0, 4, 9, 6>>
P53 == <<9, 0, 0, 7, 1, 9, 9, 2, 5, 4, 7, 4, 0, 9, 9, 2>>

\* The decimal x is a double as it is: x * 2^p is an integer (p the digits
\* of x after the point) of no more than 53 bits.
isDouble(x) ==
  /\ x.p <= 1074
  /\ The({/\ \A j \in DOMAIN fracPart(y) : fracPart(y)[j] = 0
          /\ cmpNat(intPart(y), P53) <= 0 :
            y \in {Dec(scale2(x.n, x.p), x.p)}})

\* The first scale for a decimal in 10^(d-1) .. 10^d: 2^s with x * 2^s
\* below 2^53, and s no more than 1074 (2^-1074 is the last digit a double
\* has).
firstScale(d) ==
  The({IF 52 - e > 1074 THEN 1074 ELSE 52 - e :
         e \in {IF d >= 0 THEN (d * 33220) \div 10000 ELSE (d * 33219) \div 10000}})

RECURSIVE grown(_, _)
\* y * 2^k and s + k for the least k with y * 2^k >= 2^52 or s + k = 1074.
grown(y, s) ==
  IF s < 1074 /\ cmpNat(intPart(y), P52) < 0
  THEN The({grown(y2, s2) : y2 \in {Dec(times2(y.n), y.p)}, s2 \in {s + 1}})
  ELSE [y |-> y, s |-> s]

\* m / 2^s for the 53 bits m a decimal was rounded to; from 2^1024 on the
\* double is an infinity.
ofBits(neg, m, s) ==
  IF s < -971 \/ (s = -971 /\ m = P53)
  THEN (IF neg THEN NegInfinity ELSE Infinity)
  ELSE numOf(neg, scaleBy(Dec(m, 0), -s))

\* The double next to a decimal x > 0 that is none: x is scaled by 2^s into
\* 2^52 .. 2^53 (s no more than 1074), rounded to an integer (ties to
\* even) and scaled back.
roundedDouble(neg, x) ==
  The({The({ofBits(neg, m, g.s) : m \in {roundHalfEven(g.y)}}) :
         g \in {grown(scaleBy(x, s), s) : s \in {firstScale(Len(x.n) - x.p)}}})

\* The double next to the decimal x with the sign neg.
toDouble(neg, x) ==
  IF x.n = <<>> THEN Zero(neg)
  ELSE IF isDouble(x) THEN numOf(neg, x)
  ELSE roundedDouble(neg, x)

\* The double next to n * 10^e: above 10^310 an infinity, below 10^-330
\* zero, without the digits being written out.
number(neg, n, e) ==
  IF n = <<>> THEN Zero(neg)
  ELSE IF Len(n) + e > 310 THEN (IF neg THEN NegInfinity ELSE Infinity)
  ELSE IF Len(n) + e < -330 THEN Zero(neg)
  ELSE The({toDouble(neg, x) :
              x \in {IF e >= 0 THEN Dec(n \o Zeros(e), 0) ELSE Dec(n, -e)}})

\* The length of the longest run of characters of the set S in chars
\* starting at position i: it ends before the first character not in S.
runAt(chars, i, S) ==
  IF \A j \in i..Len(chars) : chars[j] \in S THEN
    (IF i <= Len(chars) THEN Len(chars) - i + 1 ELSE 0)
  ELSE Least({j \in i..Len(chars) : chars[j] \notin S}) - i

\* The length of the longest run of digits of chars starting at position i.
digitPrefix(chars, i) == runAt(chars, i, {Digits[d] : d \in DOMAIN Digits})

\* The length of the run of white space of chars starting at position i.
spacePrefix(chars, i) == runAt(chars, i, WhiteSpace)

\* The n digits of chars from position i on.
digitsAt(chars, i, n) == [j \in 1..n |-> DigitVal(chars[i + j - 1])] \o <<>>

RECURSIVE natDigits(_)
\* The digits of a natural number of few digits.
natDigits(n) == IF n = 0 THEN <<>> ELSE Append(natDigits(n \div 10), n % 10)

RECURSIVE natValue(_)
\* The value of a natural number of few digits.
natValue(ds) ==
  IF ds = <<>> THEN 0 ELSE 10 * natValue(SubSeq(ds, 1, Len(ds) - 1)) + ds[Len(ds)]

\* chars has the word w at position i.
hasWordAt(chars, i, w) ==
  /\ i + Len(w) - 1 <= Len(chars)
  /\ \A j \in 1..Len(w) : chars[i + j - 1] = w[j]

\* The stages of parseFloat's scan of chars, each from what the stage before
\* found. The sign, if there is one, and the position i after it, from the
\* position after the white space.
scanSign(chars, start) ==
  IF start <= Len(chars) /\ chars[start] \in {"+", "-"}
  THEN [neg |-> chars[start] = "-", i |-> start + 1]
  ELSE [neg |-> FALSE, i |-> start]

\* The n digits before the point.
scanInteger(chars, p) ==
  [neg |-> p.neg, i |-> p.i, n |-> digitPrefix(chars, p.i)]

\* The point and the f digits after it; e is the position after the
\* mantissa. A point with no digit on either side is no part of a number.
scanFraction(chars, p) ==
  LET hasDot == p.i + p.n <= Len(chars) /\ chars[p.i + p.n] = "."
      f == IF hasDot THEN digitPrefix(chars, p.i + p.n + 1) ELSE 0
  IN  [neg |-> p.neg, i |-> p.i, n |-> p.n, f |-> f,
       e |-> IF hasDot /\ p.n + f > 0 THEN p.i + p.n + 1 + f ELSE p.i + p.n]

\* Integers of any length: a sign neg and the digits n of the magnitude.
\* k + b for an integer k of few digits and an integer b of any length.
plusInt(k, b) ==
  LET a == Dec(natDigits(Abs(k)), 0)
  IN  IF (k < 0) = b.neg THEN [neg |-> b.neg, n |-> addDec(a, Dec(b.n, 0)).n]
      ELSE [neg |-> IF cmpDec(a, Dec(b.n, 0)) >= 0 THEN k < 0 ELSE b.neg,
            n |-> distDec(a, Dec(b.n, 0)).n]

\* The exponent: e or E, a sign if there is one, and digits, one at least;
\* without a digit the exponent is not read and counts 0. The exponent is
\* read as it is written, with all its digits.
scanExponent(chars, p) ==
  LET hasE == p.e <= Len(chars) /\ chars[p.e] \in {"e", "E"}
      hasESign == hasE /\ p.e + 1 <= Len(chars) /\ chars[p.e + 1] \in {"+", "-"}
      d == IF hasESign THEN p.e + 2 ELSE p.e + 1
      x == IF hasE THEN stripLeading(digitsAt(chars, d, digitPrefix(chars, d)))
           ELSE <<>>
  IN  [neg |-> p.neg, i |-> p.i, n |-> p.n, f |-> p.f,
       exponent |-> [neg |-> hasESign /\ chars[p.e + 1] = "-", n |-> x]]

\* The digits of the mantissa, those before and those after the point.
mantissa(chars, p) ==
  stripLeading(digitsAt(chars, p.i, p.n) \o digitsAt(chars, p.i + p.n + 1, p.f))

\* The double next to 0.m * 10^place, for the digits m of a natural number
\* and an integer place of any length: with the first digit above 10^310
\* an infinity, below 10^-330 zero, and between them the double next to
\* m * 10^(place - Len(m)).
numberAt(neg, m, place) ==
  IF m = <<>> THEN Zero(neg)
  ELSE IF ~place.neg /\ cmpNat(place.n, <<3, 1, 0>>) > 0
  THEN (IF neg THEN NegInfinity ELSE Infinity)
  ELSE IF place.neg /\ cmpNat(place.n, <<3, 3, 0>>) > 0 THEN Zero(neg)
  ELSE number(neg, m,
              (IF place.neg THEN -natValue(place.n) ELSE natValue(place.n)) - Len(m))

\* The number scanned: "Infinity" after the sign, or the double next to
\* the decimal read, mantissa * 10^(exponent - f); NaN without a digit.
scanned(chars, p) ==
  IF hasWordAt(chars, p.i, InfinityChars)
  THEN (IF p.neg THEN NegInfinity ELSE Infinity)
  ELSE IF p.n = 0 /\ p.f = 0 THEN NaN
  ELSE The({numberAt(p.neg, m, plusInt(Len(m) - p.f, p.exponent)) :
              m \in {mantissa(chars, p)}})

\* parseFloat of a string: white space is skipped, then a sign may stand,
\* then "Infinity" or the longest prefix digits[.digits][e[sign]digits]
\* (digits on one side of the point at least, the exponent only with a
\* digit) is read; what follows is ignored, and without such a prefix the
\* result is NaN. The stages are taken one after the other.
parseFloatChars(chars) ==
  The({scanned(chars, p4) :
         p4 \in {scanExponent(chars, p3) :
           p3 \in {scanFraction(chars, p2) :
             p2 \in {scanInteger(chars, p1) :
               p1 \in {scanSign(chars, start) :
                 start \in {spacePrefix(chars, 1) + 1}}}}}})

\* parseFloat(data): a string is parsed, null, a boolean and an object are NaN.
parseFloat(data) == IF data.t = "numstr" THEN parseFloatChars(data.chars) ELSE NaN

RECURSIVE intChars(_)
intChars(n) ==
  IF n < 10 THEN <<Digits[n + 1]>> ELSE Append(intChars(n \div 10), Digits[(n % 10) + 1])
digitChars(ds) == [i \in DOMAIN ds |-> Digits[ds[i] + 1]] \o <<>>

\* The digits of a finite number v > 0 from the first that is not 0 to the
\* last that is not 0, and the point n among them: v = 0.d1d2.. * 10^n.
digitsOf(v) == stripTrailing(stripLeading(v.int \o v.frac))
pointOf(v) ==
  IF v.int # <<>> THEN Len(v.int)
  ELSE 1 - Least({i \in DOMAIN v.frac : v.frac[i] # 0})

\* The first m digits of the digits ds of v, or these and 1 in the last
\* place, when they stand for the double v and no other (the decimal of
\* these digits has v as its next double): of two such the nearer to v, of
\* two as near the even one. <<>> when neither does.
candidate(v, ds, n, m) ==
  IF m = Len(ds) THEN <<[digits |-> ds, n |-> n]>>
  ELSE The({IF isLo /\ (~isHi \/ lowNearer) THEN <<[digits |-> lo, n |-> n]>>
            ELSE IF isHi
            THEN <<[digits |-> stripTrailing(hi),
                    n |-> IF Len(hi) > m THEN n + 1 ELSE n]>>
            ELSE <<>> :
              lo \in {SubSeq(ds, 1, m)},
              isLo \in {number(FALSE, SubSeq(ds, 1, m), n - m) = v},
              hi \in {succ(SubSeq(ds, 1, m))},
              isHi \in {number(FALSE, succ(SubSeq(ds, 1, m)), n - m) = v},
              lowNearer \in {\/ ds[m + 1] < 5
                             \/ /\ ds[m + 1] = 5
                                /\ \A j \in (m + 2)..Len(ds) : ds[j] = 0
                                /\ ds[m] % 2 = 0}})

\* The fewest digits that stand for the double v: 17 are enough for every
\* double, and a double of no more than 15 digits has its own (two
\* decimals of 15 digits have two doubles, and v is the double of its own
\* digits).
shortest(v, ds, n) ==
  IF Len(ds) <= 15 THEN [digits |-> ds, n |-> n]
  ELSE
  The({c[Least({m \in DOMAIN c : c[m] # <<>>})][1] :
         c \in {[m \in 1..(IF Len(ds) < 17 THEN Len(ds) ELSE 17) |->
                   candidate(v, ds, n, m)] \o <<>>}})

\* Number::toString of the digits ds with the point n.
formatted(ds, n) ==
  IF Len(ds) <= n /\ n <= 21 THEN digitChars(ds \o Zeros(n - Len(ds)))
  ELSE IF 0 < n /\ n <= 21
  THEN digitChars(SubSeq(ds, 1, n)) \o <<".">> \o digitChars(SubSeq(ds, n + 1, Len(ds)))
  ELSE IF -6 < n /\ n <= 0 THEN <<"0", ".">> \o digitChars(Zeros(-n) \o ds)
  ELSE <<Digits[ds[1] + 1]>>
         \o (IF Len(ds) > 1 THEN <<".">> \o digitChars(SubSeq(ds, 2, Len(ds)))
             ELSE <<>>)
         \o <<"e", IF n - 1 > 0 THEN "+" ELSE "-">> \o intChars(Abs(n - 1))

\* Number.prototype.toString: the fewest digits that give the number back.
toString(v) ==
  CASE v.k = "NaN" -> <<"N", "a", "N">>
    [] v.k = "inf" -> (IF v.neg THEN <<"-">> ELSE <<>>) \o InfinityChars
    [] v.k = "num" /\ v.int = <<>> /\ v.frac = <<>> -> <<"0">>
    [] OTHER ->
         (IF v.neg THEN <<"-">> ELSE <<>>)
           \o The({formatted(r.digits, r.n) :
                     r \in {shortest(Num(FALSE, v.int, v.frac), digitsOf(v),
                                     pointOf(v))}})

\* |a - b| for finite numbers a and b, exactly.
distance(a, b) ==
  IF a.neg = b.neg THEN distDec(decOf(a), decOf(b)) ELSE addDec(decOf(a), decOf(b))

\* Math.abs(x - p) > 1.0 in doubles: the difference is rounded to the next
\* double before it is compared, and what is above 1 by no more than 2^-53
\* is rounded to 1. NaN is above nothing, an infinity above every margin.
\* The margin and 2^-53 (5^53 / 10^53; 5^53 has 38 digits).
OverMargin ==
  Dec(<<Margin>> \o Zeros(15)
        \o <<1, 1, 1, 0, 2, 2, 3, 0, 2, 4, 6, 2, 5, 1, 5, 6, 5, 4, 0, 4, 2, 3, 6,
             3, 1, 6, 6, 8, 0, 9, 0, 8, 2, 0, 3, 1, 2, 5>>, 53)
aboveMargin(x, p) ==
  CASE x.k = "NaN" -> FALSE
    [] x.k = "inf" -> TRUE
    [] OTHER -> cmpDec(distance(x, p), OverMargin) > 0

\* Math.abs(x - p) >= 1.0 in doubles: what is below 1 by no more than 2^-54
\* is rounded to 1.
\* The margin less 2^-54 (5^54 / 10^54; 5^54 has 38 digits).
AtMargin ==
  distDec(Dec(<<Margin>>, 0),
          Dec(<<5, 5, 5, 1, 1, 1, 5, 1, 2, 3, 1, 2, 5, 7, 8, 2, 7, 0, 2, 1, 1, 8, 1,
                5, 8, 3, 4, 0, 4, 5, 4, 1, 0, 1, 5, 6, 2, 5>>, 54))
atOrAboveMargin(x, p) ==
  CASE x.k = "NaN" -> FALSE
    [] x.k = "inf" -> TRUE
    [] OTHER -> cmpDec(distance(x, p), AtMargin) >= 0

\* The number of n half seconds.
Half(n) == Num(FALSE, natDigits(n \div 2), IF n % 2 = 1 THEN <<5>> ELSE <<>>)

\* x + 0.5 for a finite number x >= 0.
plusHalf(x) ==
  The({toDouble(FALSE, d) : d \in {addDec(decOf(x), Dec(<<5>>, 1))}})

\* x <= y for finite numbers x >= 0 and y >= 0.
atMost(x, y) == cmpDec(decOf(x), decOf(y)) <= 0

\* ------------------------------------------------------------- state ---
VARIABLES
  ytPlayer,     \* Player.ytPlayer: "null" or "player"
  ws,           \* the channel: "none", "connecting" or "open"
  page,         \* "session"; "leaving" once the load of the page without the
                \* session is started; "reloaded" once that page is there
  queue,        \* the children of queueItemsElement, in order
  clients,      \* Player.clients
  autoplay,     \* Player.autoplay
  url,          \* window.location: [v, sess]
  urlParams,    \* plugin.ts: the parameters of the location the page was
                \* loaded with, read at window.onload
  loading,      \* the location the window loads last: the one the page was
                \* loaded with, then the one assigned to
                \* window.location.search last
  lastUrl,      \* the location the url-change schedule saw last
  navOrigin,    \* what changed url since the last poll
  playerState,  \* ytPlayer.getPlayerState()
  currentTime,  \* ytPlayer.getCurrentTime(), a number of seconds
  pendingState, \* the state a playVideo()/pauseVideo() command will lead to
  seekNote,     \* a position jump the seek schedule has not seen yet
  sent,         \* what the running handler gave ws.send, in order
  cmds,         \* what the running handler told the player, in order
  thrown,       \* an exception in the running handler: "none", "caught"
                \* (logged by the handler's catch) or "uncaught"
  event,        \* the handler that ran last
  session       \* the rest of the session: the second client (a Player of
                \* its own), the AUTOPLAY messages the coordinator relays to
                \* it and to this client, the ones socket.io holds for each
                \* client until its channel is connected, and the toggles
                \* the users have left

vars == <<ytPlayer, ws, page, queue, clients, autoplay, url, urlParams, loading,
          lastUrl, navOrigin, playerState, currentTime, pendingState, seekNote, sent, cmds, thrown,
          event, session>>

\* The variables of this client.
locals == <<ytPlayer, ws, page, queue, clients, autoplay, url, urlParams, loading,
            lastUrl, navOrigin, playerState, currentTime, pendingState, seekNote, sent, cmds, thrown,
            event>>

State ==
  [ytPlayer |-> ytPlayer, ws |-> ws, page |-> page, queue |-> queue,
   clients |-> clients, autoplay |-> autoplay, url |-> url,
   urlParams |-> urlParams, loading |-> loading, lastUrl |-> lastUrl,
   navOrigin |-> navOrigin, playerState |-> playerState,
   currentTime |-> currentTime, pendingState |-> pendingState,
   seekNote |-> seekNote, sent |-> sent, cmds |-> cmds, thrown |-> thrown,
   event |-> event]

\* This client after a handler: every variable takes the record's field.
Local(r) ==
  /\ ytPlayer' = r.ytPlayer
  /\ ws' = r.ws
  /\ page' = r.page
  /\ queue' = r.queue
  /\ clients' = r.clients
  /\ autoplay' = r.autoplay
  /\ url' = r.url
  /\ urlParams' = r.urlParams
  /\ loading' = r.loading
  /\ lastUrl' = r.lastUrl
  /\ navOrigin' = r.navOrigin
  /\ playerState' = r.playerState
  /\ currentTime' = r.currentTime
  /\ pendingState' = r.pendingState
  /\ seekNote' = r.seekNote
  /\ sent' = r.sent
  /\ cmds' = r.cmds
  /\ thrown' = r.thrown
  /\ event' = r.event

\* The state after a handler of this client that the session sees nothing of.
Becomes(r) == Local(r) /\ session' = session

\* A handler starts: nothing sent, commanded or thrown yet.
Enter(s, h, a) ==
  [s EXCEPT !.sent = <<>>, !.cmds = <<>>, !.thrown = "none",
            !.event = [h |-> h, a |-> a]]

\* ---------------------------------------------------------- sending ---
\* Player.sendWsMessage: one frame {action, data} to ws.send.
sendWsMessage(s, type, data) ==
  [s EXCEPT !.sent = Append(@, [action |-> type, data |-> data])]

\* Player.sendWsTimeMessage: the current position, stringified.
sendWsTimeMessage(s, type) ==
  sendWsMessage(s, type, JNum(toString(s.currentTime)))

\* Player.sendWsRequestToAddToQueue
sendWsRequestToAddToQueue(s, video) == sendWsMessage(s, "add-to-queue", video)

\* SyncSocket: its senders hand one frame to the socket each, in every state
\* of the socket and for every argument; none of them changes anything else.
\* SyncSocket.sendWsMessage
SyncSocket_sendWsMessage(s, type, data) ==
  [s EXCEPT !.sent = Append(@, [action |-> type, data |-> data])]

\* SyncSocket.sendWsTimeMessage(type, ytPlayer): the position of the player
\* given, stringified; given null (Player.ytPlayer before create), the call
\* of getCurrentTime throws a TypeError nothing catches.
SyncSocket_sendWsTimeMessage(s, type, player) ==
  IF player = "null" THEN [s EXCEPT !.thrown = "uncaught"]
  ELSE SyncSocket_sendWsMessage(s, type, JNum(toString(s.currentTime)))

\* SyncSocket.sendWsRequestToAddToQueue
SyncSocket_sendWsRequestToAddToQueue(s, video) ==
  SyncSocket_sendWsMessage(s, "add-to-queue", video)

\* SyncSocket.sendWsRequestToRemoveFromQueue
sendWsRequestToRemoveFromQueue(s, videoId) ==
  SyncSocket_sendWsMessage(s, "remove-from-queue", JStr(videoId))

\* SyncSocket.sendWsReactionMessage: the id of the reaction.
sendWsReactionMessage(s, reaction) ==
  SyncSocket_sendWsMessage(s, "reaction", JStr(reaction.id))

\* SyncSocket.sendWsRequestToPlayVideo
sendWsRequestToPlayVideo(s, videoId) ==
  SyncSocket_sendWsMessage(s, "play-video", JStr(videoId))

\* SyncSocket.sendWsAutoplayMessage: the value given; the flag of the player
\* is neither read nor written.
sendWsAutoplayMessage(s, b) == SyncSocket_sendWsMessage(s, "autoplay", JBool(b))

\* SyncSocket.sendWsPromoteMessage / sendWsUnpromoteMessage: the socketId of
\* the client given, in the roster or not.
sendWsPromoteMessage(s, client) ==
  SyncSocket_sendWsMessage(s, "promote", JStr(client.socketId))
sendWsUnpromoteMessage(s, client) ==
  SyncSocket_sendWsMessage(s, "unpromote", JStr(client.socketId))

\* ------------------------------------------------------------ queue ---
\* YTHTMLUtil.injectYtPlaylistPanelVideoRendererElement: one more child at
\* the end of the queue element, with the videoId and selected attributes.
injectYtPlaylistPanelVideoRendererElement(q, selected, videoId, title) ==
  Append(q, [videoId |-> videoId, title |-> title, selected |-> selected])

\* addToQueue that skips a video whose videoId the queue holds already.
addToQueue_dedup(q, video, selected) ==
  IF \E i \in DOMAIN q : q[i].videoId = video.videoId THEN q
  ELSE injectYtPlaylistPanelVideoRendererElement(q, selected, video.videoId, video.title)

\* Player.addToQueue
addToQueue(q, video, selected) ==
  injectYtPlaylistPanelVideoRendererElement(q, selected, video.videoId, video.title)

RECURSIVE forEachVideo(_, _, _, _)
\* data.videos.forEach of populateQueue, from the i-th video on.
forEachVideo(q, data, videos, i) ==
  IF i > Len(videos) THEN q
  ELSE forEachVideo(
         addToQueue(q, videos[i],
                    data.video.t # "null" /\ videos[i].videoId = data.video.videoId),
         data, videos, i + 1)

\* populateQueue without its empty(): the videos are added to what is there.
populateQueue_noEmpty(q, data) == forEachVideo(q, data, data.videos, 1)

\* populateQueue that marks the first entry when the snapshot's video marks
\* none.
populateQueue_selectFirst(q, data) ==
  LET r == forEachVideo(<<>>, data, data.videos, 1)
  IN  IF r # <<>> /\ \A i \in DOMAIN r : ~r[i].selected
      THEN [r EXCEPT ![1].selected = TRUE]
      ELSE r

\* Player.populateQueue, for data = {video, videos}: empty(), then one
\* addToQueue per video.
populateQueue(q, data) == forEachVideo(<<>>, data, data.videos, 1)

\* video.videoId as removeFromQueue reads it: a string has no such property.
videoIdOf(data) == IF data.t = "video" THEN data.videoId ELSE "undefined"

\* Player.removeFromQueue: find(`[videoId="${video.videoId}"]`).remove()
removeFromQueue(q, video) ==
  SelectSeq(q, LAMBDA e : e.videoId # videoIdOf(video))

\* Player.selectQueueElement
selectQueueElement(q, videoId) ==
  [i \in DOMAIN q |-> [q[i] EXCEPT !.selected = (q[i].videoId = videoId)]]

\* The queue without the selected marking.
Contents(q) == [i \in DOMAIN q |-> JVideo(q[i].videoId, q[i].title)]
SelectedSlots(q) == {i \in DOMAIN q : q[i].selected}
Min(S) == CHOOSE x \in S : \A y \in S : x <= y

\* Player.navigateToVideo: select, then app.onYtNavigate_ when the page is
\* not on videoId yet; the navigation keeps the session parameter.
navigateToVideo(s, videoId, origin) ==
  LET t == [s EXCEPT !.queue = selectQueueElement(@, videoId)]
  IN  IF s.url.v # videoId
      THEN [t EXCEPT !.url = [v |-> videoId, sess |-> TRUE], !.navOrigin = origin]
      ELSE t

\* children.index(current.get(0)), 0-based: jQuery's index(undefined) is the
\* position of the first child among its siblings, -1 without children.
indexOfCurrent(q) ==
  IF SelectedSlots(q) # {} THEN Min(SelectedSlots(q)) - 1
  ELSE IF Len(q) > 0 THEN 0 ELSE -1

\* playNextVideoInQueue that starts over after the last entry.
playNextVideoInQueue_wrap(s) ==
  LET index == indexOfCurrent(s.queue)
  IN  IF Len(s.queue) = 0 THEN s
      ELSE IF index = Len(s.queue) - 1
      THEN navigateToVideo(s, s.queue[1].videoId, "autoplay")
      ELSE navigateToVideo(s, s.queue[index + 2].videoId, "autoplay")

\* Player.playNextVideoInQueue
playNextVideoInQueue(s) ==
  LET index == indexOfCurrent(s.queue)
  IN  IF index = Len(s.queue) - 1 THEN s
      ELSE navigateToVideo(s, s.queue[index + 2].videoId, "autoplay")

\* --------------------------------------------------------- autoplay ---
\* setAutoplay without the force parameter's effect.
setAutoplay_unforced(s, value, force) ==
  IF s.autoplay = value THEN s
  ELSE sendWsMessage([s EXCEPT !.autoplay = value], "autoplay", JBool(value))

\* Player.setAutoplay
setAutoplay(s, value, force) ==
  IF s.autoplay = value /\ ~force THEN s
  ELSE sendWsMessage([s EXCEPT !.autoplay = value], "autoplay", JBool(value))

\* ----------------------------------------------------------- roster ---
\* addClients without the socketIds.includes check.
addClients_noCheck(cs, list) == cs \o list

\* Player.addClients: socketIds is read once, before the loop.
addClients(cs, list) ==
  LET socketIds == {cs[i].socketId : i \in DOMAIN cs}
  IN  cs \o SelectSeq(list, LAMBDA c : c.socketId \notin socketIds)

\* Player.removeClient
removeClient(cs, socketId) == SelectSeq(cs, LAMBDA c : c.socketId # socketId)

\* --------------------------------------------------- player commands ---
\* seekTo that ignores a target within the margin of the position.
seekTo_beyondMargin(s, t) ==
  IF t.k = "num" /\ aboveMargin(t, s.currentTime)
  THEN [s EXCEPT !.cmds = Append(@, <<"seekTo", t>>),
                 !.currentTime = IF ~t.neg THEN t ELSE @,
                 !.seekNote = IF ~t.neg THEN "remote" ELSE @]
  ELSE s

\* t is a position of a video: a finite number, not negative (-0 is 0).
IsPosition(t) == t.k = "num" /\ (~t.neg \/ t = Zero(TRUE))

\* ytPlayer.seekTo(t, true): the player is given t as it is; the position
\* jumps to t when t is a position. What the player makes of NaN, of a
\* negative number and of an infinity is the player's matter: the position
\* is left here.
seekTo(s, t) ==
  [s EXCEPT !.cmds = Append(@, <<"seekTo", t>>),
            !.currentTime = IF IsPosition(t) THEN Num(FALSE, t.int, t.frac) ELSE @,
            !.seekNote = IF IsPosition(t) /\ Num(FALSE, t.int, t.frac) # s.currentTime
                         THEN "remote" ELSE @]

\* ytPlayer.playVideo() / pauseVideo(): the state changes after the handler.
playVideo(s) ==
  [s EXCEPT !.cmds = Append(@, <<"playVideo">>), !.pendingState = "PLAYING"]
pauseVideo(s) ==
  [s EXCEPT !.cmds = Append(@, <<"pauseVideo">>), !.pendingState = "PAUSED"]

\* syncPlayerTime that seeks at the margin already (>= for >).
syncPlayerTime_atMargin(s, videoTime) ==
  IF atOrAboveMargin(videoTime, s.currentTime) THEN seekTo(s, videoTime) ELSE s

\* Player.syncPlayerTime, margin = 1.0: Math.abs(videoTime - getCurrentTime())
\* > margin; a comparison with NaN is false, Infinity is above every margin.
syncPlayerTime(s, videoTime) ==
  IF aboveMargin(videoTime, s.currentTime) THEN seekTo(s, videoTime) ELSE s

\* --------------------------------------------------------- handlers ---
\* onStateChange that announces BUFFERING as a PLAY too.
onStateChange_buffering(s, state) ==
  CASE state \in {"PLAYING", "BUFFERING"} -> sendWsTimeMessage(s, "play")
    [] state = "PAUSED" -> sendWsTimeMessage(s, "pause")
    [] state = "ENDED" -> IF s.autoplay THEN playNextVideoInQueue(s) ELSE s
    [] OTHER -> s

\* Player.onStateChange
onStateChange(s, state) ==
  CASE state = "PLAYING" -> sendWsTimeMessage(s, "play")
    [] state = "PAUSED" -> sendWsTimeMessage(s, "pause")
    [] state = "ENDED" -> IF s.autoplay THEN playNextVideoInQueue(s) ELSE s
    [] OTHER -> s

\* Player.onUrlChange(o, n): leaving the session starts the load of the new
\* location, which is without the session (the assignment of its
\* parameters to window.location.search), and returns; any other new
\* location with a video is announced.
onUrlChange(s, o, n) ==
  IF o.sess /\ ~n.sess THEN [s EXCEPT !.page = "leaving", !.loading = n]
  ELSE IF n.v # NoParam THEN sendWsMessage(s, "play-video", JStr(n.v))
  ELSE s

\* Player.onPlayerSeek
onPlayerSeek(s) == sendWsTimeMessage(s, "seek")

\* Player.onWsConnected, video = VideoUtil.getCurrentVideo()
onWsConnected(s, video) ==
  setAutoplay(
    sendWsMessage(sendWsRequestToAddToQueue(s, video),
                  "play-video", JStr(video.videoId)),
    s.autoplay, TRUE)

\* Frames: text that is no JSON, the JSON value null, a JSON number or
\* string (its .action is undefined), and {action, data}.
Unparseable == [f |-> "text"]
JsonNull == [f |-> "null"]
JsonScalar == [f |-> "scalar"]
Msg(action, data) == [f |-> "msg", action |-> action, data |-> data]
actionOf(frame) == IF frame.f = "msg" THEN frame.action ELSE frame.f

\* An exception inside onWsMessage's try block: caught and logged.
caught(s) == [s EXCEPT !.thrown = "caught"]

\* The switch with PLAY gated on 'not PLAYING' in place of 'PAUSED'.
dispatch_notPlaying(s, command, data) ==
  LET stateRead == s.playerState
  IN
  CASE command = "play" ->
         LET t == syncPlayerTime(s, parseFloat(data))
         IN  IF stateRead # "PLAYING" THEN playVideo(t) ELSE t
    [] command = "pause" ->
         LET t == syncPlayerTime(s, parseFloat(data))
         IN  IF stateRead = "PLAYING" THEN pauseVideo(t) ELSE t
    [] command = "seek" -> seekTo(s, parseFloat(data))
    [] command = "autoplay" -> setAutoplay(s, data.b, FALSE)
    [] command = "play-video" -> navigateToVideo(s, data.s, "inbound")
    [] command = "queue" ->
         IF data.t = "null" THEN caught([s EXCEPT !.queue = <<>>])
         ELSE [s EXCEPT !.queue = populateQueue(@, data)]
    [] command = "add-to-queue" ->
         IF data.t = "null" THEN caught(s)
         ELSE [s EXCEPT !.queue = addToQueue(@, data, FALSE)]
    [] command = "remove-from-queue" ->
         IF data.t = "null" THEN caught(s)
         ELSE [s EXCEPT !.queue = removeFromQueue(@, data)]
    [] command = "clients" -> [s EXCEPT !.clients = addClients(@, data.list)]
    [] command = "client-connect" ->
         IF data.t = "null" THEN caught(s)
         ELSE [s EXCEPT !.clients = addClients(@, <<data>>)]
    [] command = "client-disconnect" ->
         [s EXCEPT !.clients = removeClient(@, data.s)]
    [] OTHER -> s

\* The switch of Player.onWsMessage, playerState read before it.
dispatch(s, command, data) ==
  LET stateRead == s.playerState
  IN
  CASE command = "play" ->
         LET t == syncPlayerTime(s, parseFloat(data))
         IN  IF stateRead = "PAUSED" THEN playVideo(t) ELSE t
    [] command = "pause" ->
         LET t == syncPlayerTime(s, parseFloat(data))
         IN  IF stateRead = "PLAYING" THEN pauseVideo(t) ELSE t
    [] command = "seek" -> seekTo(s, parseFloat(data))
    [] command = "autoplay" -> setAutoplay(s, data.b, FALSE)
    [] command = "play-video" -> navigateToVideo(s, data.s, "inbound")
    [] command = "queue" ->
         IF data.t = "null" THEN caught([s EXCEPT !.queue = <<>>])
         ELSE [s EXCEPT !.queue = populateQueue(@, data)]
    [] command = "add-to-queue" ->
         IF data.t = "null" THEN caught(s)
         ELSE [s EXCEPT !.queue = addToQueue(@, data, FALSE)]
    [] command = "remove-from-queue" ->
         IF data.t = "null" THEN caught(s)
         ELSE [s EXCEPT !.queue = removeFromQueue(@, data)]
    [] command = "clients" -> [s EXCEPT !.clients = addClients(@, data.list)]
    [] command = "client-connect" ->
         IF data.t = "null" THEN caught(s)
         ELSE [s EXCEPT !.clients = addClients(@, <<data>>)]
    [] command = "client-disconnect" ->
         [s EXCEPT !.clients = removeClient(@, data.s)]
    [] OTHER -> s

\* onWsMessage without its try/catch: an exception leaves the handler.
onWsMessage_noCatch(s, frame) ==
  IF frame.f \in {"text", "null"} \/ s.ytPlayer = "null"
  THEN [s EXCEPT !.thrown = "uncaught"]
  ELSE IF frame.f = "scalar" THEN s
  ELSE dispatch(s, frame.action, frame.data)

\* Player.onWsMessage: JSON.parse, json.action, getPlayerState, the switch,
\* all inside try/catch.
onWsMessage(s, frame) ==
  IF frame.f \in {"text", "null"} \/ s.ytPlayer = "null" THEN caught(s)
  ELSE IF frame.f = "scalar" THEN s
  ELSE dispatch(s, frame.action, frame.data)

\* create without its first test: a call with the player set starts over.
create_again(s, got) ==
  IF got = "null" THEN [s EXCEPT !.thrown = "uncaught"]
  ELSE [s EXCEPT !.ytPlayer = got, !.lastUrl = s.url, !.ws = "connecting"]

\* Player.create, got = YTUtil.getPlayer(): a second call returns at once;
\* without a player element addEventListener throws and nothing is started.
create(s, got) ==
  IF s.ytPlayer # "null" THEN s
  ELSE IF got = "null" THEN [s EXCEPT !.thrown = "uncaught"]
  ELSE [s EXCEPT !.ytPlayer = got, !.lastUrl = s.url, !.ws = "connecting"]


\* Player.queueElementClickHandler of the i-th queue entry
queueElementClickHandler(s, i) == navigateToVideo(s, s.queue[i].videoId, "click")

\* A delete handler that removes the entry at once, before any confirmation.
queueElementDeleteHandler_optimistic(s, i) ==
  sendWsMessage([s EXCEPT !.queue = removeFromQueue(@, JVideo(s.queue[i].videoId,
                                                              s.queue[i].title))],
                "remove-from-queue", JStr(s.queue[i].videoId))

\* Player.queueElementDeleteHandler of the i-th queue entry
queueElementDeleteHandler(s, i) ==
  sendWsMessage(s, "remove-from-queue", JStr(s.queue[i].videoId))

\* ------------------------------------------------------------ steps ---
\* One step of the client from state s: a callback runs to completion.

\* plugin.ts: the page calls player.create.
CreateStep(s, got) == create(Enter(s, "create", got), got)

\* The channel's 'connect' event, on the first connect and on a reconnect.
ConnectStep(s, video) ==
  onWsConnected([Enter(s, "onWsConnected", "connect") EXCEPT !.ws = "open"], video)

\* The transport loses the connection; socket.io reconnects by itself.
DropStep(s) == [Enter(s, "transport", "drop") EXCEPT !.ws = "connecting"]

\* The channel's 'message' event.
MessageStep(s, frame) ==
  onWsMessage(Enter(s, "onWsMessage", actionOf(frame)), frame)

\* The player changes state by itself (the user, the end of the video) and
\* notifies the listener.
StateChangeStep(s, state) ==
  onStateChange([Enter(s, "onStateChange", "local")
                   EXCEPT !.playerState = state, !.pendingState = "none"], state)

\* The state change a playVideo()/pauseVideo() command leads to, notified.
StateNotifyStep(s) ==
  onStateChange([Enter(s, "onStateChange", "remote")
                   EXCEPT !.playerState = s.pendingState, !.pendingState = "none"],
                s.pendingState)

\* The user moves the position to t half seconds.
UserSeekStep(s, t) ==
  [Enter(s, "user", "seek") EXCEPT !.currentTime = Half(t), !.seekNote = "local"]

\* Playing moves the position on, by half a second.
TickStep(s) == [Enter(s, "player", "tick") EXCEPT !.currentTime = plusHalf(@)]

\* The seek schedule sees a position jump and calls onPlayerSeek.
SeekPollStep(s) ==
  onPlayerSeek([Enter(s, "onPlayerSeek", s.seekNote) EXCEPT !.seekNote = "none"])

\* The user (or the host page) changes the location.
UserNavigateStep(s, n) ==
  [Enter(s, "user", "navigate") EXCEPT !.url = n, !.navOrigin = "user"]

\* The url-change schedule sees a new location and calls onUrlChange.
UrlPollStep(s) ==
  onUrlChange([Enter(s, "onUrlChange", s.navOrigin)
                 EXCEPT !.lastUrl = s.url, !.navOrigin = "none"],
              s.lastUrl, s.url)

\* The page whose load was started last is there: the window is on the
\* location assigned, and the document of the session, its player, channel
\* and schedules are gone (their variables keep what they held last).
PageLoadStep(s) ==
  [Enter(s, "page", "load") EXCEPT !.page = "reloaded", !.url = s.loading]

\* plugin.ts: a click on the Leave Sync button deletes the session from
\* the parameters the page was loaded with (urlParams, read at
\* window.onload: the video is the one of that load, whatever video the
\* location has by now) and assigns them to window.location.search: the
\* load of that location is started, the location and the document stay
\* until the page is there.
LeaveSyncStep(s) ==
  [Enter(s, "leaveSync", "click")
     EXCEPT !.urlParams = [s.urlParams EXCEPT !.sess = FALSE],
            !.loading = [s.urlParams EXCEPT !.sess = FALSE],
            !.page = "leaving"]

\* The queue-store schedule finds a stored video.
StorePollStep(s, video) ==
  sendWsRequestToAddToQueue(Enter(s, "queueStore", "add"), video)

\* The autoplay toggle of the room info panel.
ToggleStep(s, b) == setAutoplay(Enter(s, "autoplayToggle", "toggle"), b, FALSE)

\* A click on the i-th queue entry, and on its delete button.
ClickStep(s, i) == queueElementClickHandler(Enter(s, "queueClick", "click"), i)
DeleteStep(s, i) == queueElementDeleteHandler(Enter(s, "queueDelete", "delete"), i)

\* A request to promote, and to unpromote, a client.
PromoteStep(s, client) == sendWsPromoteMessage(Enter(s, "promote", "request"), client)
UnpromoteStep(s, client) ==
  sendWsUnpromoteMessage(Enter(s, "unpromote", "request"), client)

\* The other senders of SyncSocket, called with their arguments.
SocketTimeStep(s, type, player) ==
  SyncSocket_sendWsTimeMessage(Enter(s, "sendWsTimeMessage", type), type, player)
SocketAddStep(s, video) ==
  SyncSocket_sendWsRequestToAddToQueue(Enter(s, "sendWsRequestToAddToQueue", "request"),
                                       video)
SocketRemoveStep(s, videoId) ==
  sendWsRequestToRemoveFromQueue(Enter(s, "sendWsRequestToRemoveFromQueue", "request"),
                                 videoId)
SocketReactionStep(s, reaction) ==
  sendWsReactionMessage(Enter(s, "sendWsReactionMessage", "request"), reaction)
SocketPlayVideoStep(s, videoId) ==
  sendWsRequestToPlayVideo(Enter(s, "sendWsRequestToPlayVideo", "request"), videoId)
SocketAutoplayStep(s, b) ==
  sendWsAutoplayMessage(Enter(s, "sendWsAutoplayMessage", "request"), b)

\* ---------------------------------------------------------- actions ---
\* The document of the session is in the window: until the page that left
\* the session is loaded, the player, the channel and the schedules go on.
InSession == page # "reloaded"
Created == InSession /\ ytPlayer # "null"
Open == Created /\ ws = "open"

Create(got) == InSession /\ Becomes(CreateStep(State, got))

WsConnect(video) ==
  /\ Created /\ ws = "connecting"
  /\ Becomes(ConnectStep(State, video))

WsDrop == Open /\ Becomes(DropStep(State))

WsMessage(frame, qmax, cmax) ==
  /\ Open
  /\ Len(MessageStep(State, frame).queue) <= qmax
  /\ Len(MessageStep(State, frame).clients) <= cmax
  /\ Becomes(MessageStep(State, frame))

PlayerStateChange(state) == Created /\ Becomes(StateChangeStep(State, state))

StateNotify ==
  /\ Created /\ pendingState # "none"
  /\ Becomes(StateNotifyStep(State))

UserSeek(t) == Created /\ Half(t) # currentTime /\ Becomes(UserSeekStep(State, t))

Tick(tmax) ==
  /\ Created /\ playerState = "PLAYING" /\ atMost(plusHalf(currentTime), Half(tmax))
  /\ Becomes(TickStep(State))

SeekPoll == Created /\ seekNote # "none" /\ Becomes(SeekPollStep(State))

UserNavigate(n) == Created /\ n # url /\ Becomes(UserNavigateStep(State, n))

UrlPoll == Created /\ url # lastUrl /\ Becomes(UrlPollStep(State))

PageLoad == page = "leaving" /\ Becomes(PageLoadStep(State))

\* The button is on the page of a session from the first run of its
\* schedule on, with the player created or not.
LeaveSync == InSession /\ Becomes(LeaveSyncStep(State))

QueueStorePoll(video) == Created /\ Becomes(StorePollStep(State, video))

ToggleAutoplay(b) == Created /\ Becomes(ToggleStep(State, b))

QueueClick(i) == Created /\ Becomes(ClickStep(State, i))

QueueDelete(i) == Created /\ Becomes(DeleteStep(State, i))

\* The senders of SyncSocket have no condition and know nothing of the
\* Player: they are called before create and after, with the channel
\* connecting or open, and for a client in the roster or not. The one that
\* reads the position is given a player: the player of the page, or
\* Player.ytPlayer, null before create.
Promote(client) == InSession /\ Becomes(PromoteStep(State, client))

Unpromote(client) == InSession /\ Becomes(UnpromoteStep(State, client))

SocketTime(type, player) ==
  InSession /\ Becomes(SocketTimeStep(State, type, player))

SocketAdd(video) == InSession /\ Becomes(SocketAddStep(State, video))

SocketRemove(videoId) == InSession /\ Becomes(SocketRemoveStep(State, videoId))

SocketReaction(reaction) == InSession /\ Becomes(SocketReactionStep(State, reaction))

SocketPlayVideo(videoId) == InSession /\ Becomes(SocketPlayVideoStep(State, videoId))

SocketAutoplay(b) == InSession /\ Becomes(SocketAutoplayStep(State, b))

\* ---------------------------------------------------------- session ---
\* The second client of the session after its `new Player(options)`.
PeerInit ==
  [ytPlayer |-> "null", ws |-> "none", page |-> "session", queue |-> <<>>,
   clients |-> <<>>, autoplay |-> TRUE, url |-> [v |-> "A", sess |-> TRUE],
   urlParams |-> [v |-> "A", sess |-> TRUE], loading |-> [v |-> "A", sess |-> TRUE],
   lastUrl |-> [v |-> "A", sess |-> TRUE], navOrigin |-> "none",
   playerState |-> "UNSTARTED", currentTime |-> Half(0), pendingState |-> "none",
   seekNote |-> "none", sent |-> <<>>, cmds |-> <<>>, thrown |-> "none",
   event |-> [h |-> "constructor", a |-> "new"]]

\* What the coordinator relays of the frames a handler sent: the AUTOPLAY
\* messages, in send order.
Relayed(r) == SelectSeq(r.sent, LAMBDA f : f.action = "autoplay")

\* What leaves a client at its connect: the frames of the handshake and the
\* frames socket.io held while the channel was not connected. The library is
\* no part of the repository, and which of the two goes first is its
\* matter: both orders are taken.
Flushed(held, handshake, heldFirst) ==
  IF heldFirst THEN held \o handshake ELSE handshake \o held

\* The session after a toggle whose frames are given to the socket: with
\* the channel open they are on their way, else socket.io holds them.
Posted(ses, way, held, open, frames) ==
  [ses EXCEPT !.toggles = ses.toggles - 1,
              ![IF open THEN way ELSE held] = ses[IF open THEN way ELSE held] \o frames]

\* This client connects; its handshake's AUTOPLAY and the AUTOPLAY requests
\* held go to the other client.
SessionConnect1(video, heldFirst) ==
  /\ Created /\ ws = "connecting"
  /\ Local(ConnectStep(State, video))
  /\ session' = [session EXCEPT
                   !.toPeer = @ \o Flushed(session.heldLocal,
                                           Relayed(ConnectStep(State, video)),
                                           heldFirst),
                   !.heldLocal = <<>>]

\* The user of this client switches the autoplay toggle over: the callback
\* is there from create() on, and setAutoplay sends with the channel open or
\* not; socket.io holds the frame until the channel is connected.
SessionToggle1 ==
  /\ Created /\ session.toggles > 0
  /\ Local(ToggleStep(State, ~autoplay))
  /\ session' = Posted(session, "toPeer", "heldLocal", ws = "open",
                       Relayed(ToggleStep(State, ~autoplay)))

\* This client handles the first AUTOPLAY relayed to it.
SessionDeliver1 ==
  /\ Open /\ session.toLocal # <<>>
  /\ LET f == Head(session.toLocal)
          r == MessageStep(State, Msg(f.action, f.data))
      IN  /\ Local(r)
          /\ session' = [session EXCEPT !.toLocal = Tail(@),
                                        !.toPeer = @ \o Relayed(r)]

\* The same steps of the second client.
SessionCreate2 ==
  /\ session.peer.ytPlayer = "null"
  /\ session' = [session EXCEPT !.peer = CreateStep(@, "player")]
  /\ UNCHANGED locals

SessionConnect2(video, heldFirst) ==
  /\ session.peer.ytPlayer # "null" /\ session.peer.ws = "connecting"
  /\ session' = [session EXCEPT
                   !.peer = ConnectStep(@, video),
                   !.toLocal = @ \o Flushed(session.heldPeer,
                                            Relayed(ConnectStep(session.peer, video)),
                                            heldFirst),
                   !.heldPeer = <<>>]
  /\ UNCHANGED locals

SessionToggle2 ==
  /\ session.peer.ytPlayer # "null" /\ session.toggles > 0
  /\ session' = [Posted(session, "toLocal", "heldPeer", session.peer.ws = "open",
                        Relayed(ToggleStep(session.peer, ~session.peer.autoplay)))
                   EXCEPT !.peer = ToggleStep(session.peer, ~session.peer.autoplay)]
  /\ UNCHANGED locals

SessionDeliver2 ==
  /\ session.peer.ws = "open" /\ session.toPeer # <<>>
  /\ LET f == Head(session.toPeer)
          r == MessageStep(session.peer, Msg(f.action, f.data))
      IN  session' = [session EXCEPT !.peer = r, !.toPeer = Tail(@),
                                     !.toLocal = @ \o Relayed(r)]
  /\ UNCHANGED locals

\* ------------------------------------------------------------ Init ---
\* After `new Player(options)` on a page of a session.
Init ==
  /\ ytPlayer = "null"
  /\ ws = "none"
  /\ page = "session"
  /\ queue = <<>>
  /\ clients = <<>>
  /\ autoplay = TRUE
  /\ url \in {[v |-> v, sess |-> TRUE] : v \in VideoIds}
  /\ urlParams = url
  /\ loading = url
  /\ lastUrl = url
  /\ navOrigin = "none"
  /\ playerState = "UNSTARTED"
  /\ currentTime = Half(0)
  /\ pendingState = "none"
  /\ seekNote = "none"
  /\ sent = <<>>
  /\ cmds = <<>>
  /\ thrown = "none"
  /\ event = [h |-> "constructor", a |-> "new"]
  /\ session = [peer |-> PeerInit, toPeer |-> <<>>, toLocal |-> <<>>,
                heldLocal |-> <<>>, heldPeer |-> <<>>, toggles |-> MaxToggles]

\* ----------------------------------------------------------- inputs ---
\* The reactions of the room: objects with an id.
Reactions == {[id |-> "r1"], [id |-> "r2"]}

Urls == {[v |-> v, sess |-> b] : v \in VideoIds \cup {NoParam}, b \in BOOLEAN}

QueueSnapshots(n) ==
  {JQueue(v, vs) : v \in Videos \cup {JNull}, vs \in SeqsUpTo(Videos, n)}

\* The frames of the queue: snapshots, deltas, PLAY_VIDEO and AUTOPLAY.
QueueFrames(n) ==
  {Msg("queue", d) : d \in QueueSnapshots(n) \cup {JNull}}
    \cup {Msg("add-to-queue", d) : d \in Videos \cup {JNull}}
    \cup {Msg("remove-from-queue", d) :
            d \in Videos \cup {JStr(id) : id \in VideoIds} \cup {JNull}}
    \cup {Msg("play-video", JStr(id)) : id \in VideoIds}
    \cup {Msg("autoplay", JBool(b)) : b \in BOOLEAN}

\* The frames of the roster.
RosterFrames(n) ==
  {Msg("clients", JClients(l)) : l \in SeqsUpTo(Clients, n)}
    \cup {Msg("client-connect", d) : d \in Clients \cup {JNull}}
    \cup {Msg("client-disconnect", JStr(id)) : id \in SocketIds}

\* Other spellings parseFloat reads: white space and a sign in front, an
\* exponent, a number off the half seconds, a negative number, an infinity.
Spellings ==
  {<<" ", "1">>, <<"\\u00a0", "1">>, <<"+", "1">>, <<"1", "e", "0">>,
   <<"5", "e", "-", "1">>, <<"1", ".", "2", "5">>, <<"-", "1">>, InfinityChars}

\* Stringified seconds, other spellings of numbers, and strings that are no
\* number or only start as one.
TimeStrings(n) ==
  {toString(Half(t)) : t \in 0..n} \cup Spellings
    \cup {<<"x">>, <<"1", "x">>, <<"1", ".">>, <<>>}

\* The frames of the playback.
PlaybackFrames(n) ==
  {Msg(a, d) : a \in {"play", "pause", "seek"},
               d \in {JNum(c) : c \in TimeStrings(n)} \cup {JNull}}

\* Frames that are no message, and messages the switch has no case for.
UnhandledActions == {"reaction", "promote", "unpromote", "no-such-action"}
Reaction == Msg("reaction", JStr("r1"))
UnhandledFrames ==
  {Unparseable, JsonNull, JsonScalar}
    \cup {Msg(a, d) : a \in UnhandledActions, d \in {JNull, JStr("s1"), JStr("r1")}}

AllFrames ==
  QueueFrames(MaxQueue) \cup RosterFrames(MaxClients)
    \cup PlaybackFrames(MaxTime) \cup UnhandledFrames

\* ---------------------------------------------------- specifications ---
\* The whole client: every callback, every input.
Next ==
  \/ \E got \in {"null", "player"} : Create(got)
  \/ \E video \in Videos : WsConnect(video)
  \/ WsDrop
  \/ \E frame \in AllFrames : WsMessage(frame, MaxQueue, MaxClients)
  \/ \E state \in PlayerStates : PlayerStateChange(state)
  \/ StateNotify
  \/ \E t \in 0..MaxTime : UserSeek(t)
  \/ Tick(MaxTime)
  \/ SeekPoll
  \/ \E n \in Urls : UserNavigate(n)
  \/ UrlPoll
  \/ \E video \in Videos : QueueStorePoll(video)
  \/ \E b \in BOOLEAN : ToggleAutoplay(b)
  \/ \E i \in DOMAIN queue : QueueClick(i)
  \/ \E i \in DOMAIN queue : QueueDelete(i)
  \/ PageLoad
  \/ LeaveSync
  \/ \E client \in Clients : Promote(client)
  \/ \E client \in Clients : Unpromote(client)
  \/ \E type \in {"play", "pause", "seek"}, player \in {"player", ytPlayer} :
       SocketTime(type, player)
  \/ \E video \in Videos : SocketAdd(video)
  \/ \E videoId \in VideoIds : SocketRemove(videoId)
  \/ \E reaction \in Reactions : SocketReaction(reaction)
  \/ \E videoId \in VideoIds : SocketPlayVideo(videoId)
  \/ \E b \in BOOLEAN : SocketAutoplay(b)

Spec == Init /\ [][Next]_vars

\* The queue: its messages (and the frames that are none), its local
\* requests, selection and navigation, the end of a video and the autoplay
\* flag.
NextQueue ==
  \/ \E got \in {"null", "player"} : Create(got)
  \/ \E video \in Videos : WsConnect(video)
  \/ \E frame \in QueueFrames(MaxQueue) \cup {Unparseable, Reaction} :
       WsMessage(frame, MaxQueue, MaxClients)
  \/ PlayerStateChange("ENDED")
  \/ UrlPoll
  \/ \E video \in Videos : QueueStorePoll(video)
  \/ \E b \in BOOLEAN : ToggleAutoplay(b)
  \/ \E i \in DOMAIN queue : QueueClick(i)
  \/ \E i \in DOMAIN queue : QueueDelete(i)

SpecQueue == Init /\ [][NextQueue]_vars

\* The navigation: PLAY_VIDEO, queue clicks and the user's own navigation,
\* seen by the url-change schedule.
NextNav ==
  \/ \E got \in {"null", "player"} : Create(got)
  \/ \E video \in Videos : WsConnect(video)
  \/ \E frame \in QueueFrames(NavQueue) : WsMessage(frame, NavQueue, MaxClients)
  \/ PlayerStateChange("ENDED")
  \/ \E n \in Urls : UserNavigate(n)
  \/ UrlPoll
  \/ PageLoad
  \/ LeaveSync
  \/ \E i \in DOMAIN queue : QueueClick(i)

SpecNav == Init /\ [][NextNav]_vars

\* The roster: its messages, over a connection that drops and comes back,
\* and the autoplay toggle for the flag the handshake announces.
NextRoster ==
  \/ \E got \in {"null", "player"} : Create(got)
  \/ \E video \in Videos : WsConnect(video)
  \/ WsDrop
  \/ \E b \in BOOLEAN : ToggleAutoplay(b)
  \/ \E frame \in RosterFrames(MaxClients) :
       WsMessage(frame, MaxQueue, MaxClients)

SpecRoster == Init /\ [][NextRoster]_vars

\* The playback: its messages, the player's own state changes and seeks.
NextPlayback ==
  \/ \E got \in {"null", "player"} : Create(got)
  \/ \E video \in Videos : WsConnect(video)
  \/ \E frame \in PlaybackFrames(MaxTime) :
       WsMessage(frame, MaxQueue, MaxClients)
  \/ \E state \in PlayerStates : PlayerStateChange(state)
  \/ StateNotify
  \/ \E t \in 0..MaxTime : UserSeek(t)
  \/ Tick(MaxTime)
  \/ SeekPoll

SpecPlayback == Init /\ [][NextPlayback]_vars

\* The end of video after video over a queue the snapshots set: the
\* snapshots, ENDED, and the url-change schedule in between.
NextLoop ==
  \/ \E got \in {"null", "player"} : Create(got)
  \/ \E video \in Videos : WsConnect(video)
  \/ \E d \in QueueSnapshots(LoopQueue) :
       WsMessage(Msg("queue", d), LoopQueue, MaxClients)
  \/ PlayerStateChange("ENDED")
  \/ UrlPoll

SpecLoop == Init /\ [][NextLoop]_vars

\* Two clients of one session and the coordinator's relay of AUTOPLAY. The
\* page calls create until it worked, socket.io connects by itself, and a
\* message in flight is delivered.
NextSession ==
  \/ Create("player")
  \/ \E video \in Videos, heldFirst \in BOOLEAN :
       SessionConnect1(video, heldFirst)
  \/ SessionToggle1
  \/ SessionDeliver1
  \/ SessionCreate2
  \/ \E video \in Videos, heldFirst \in BOOLEAN :
       SessionConnect2(video, heldFirst)
  \/ SessionToggle2
  \/ SessionDeliver2

SpecSession ==
  /\ Init /\ [][NextSession]_vars
  /\ WF_vars(Create("player")) /\ WF_vars(SessionCreate2)
  /\ WF_vars(\E video \in Videos, heldFirst \in BOOLEAN :
               SessionConnect1(video, heldFirst))
  /\ WF_vars(\E video \in Videos, heldFirst \in BOOLEAN :
               SessionConnect2(video, heldFirst))
  /\ WF_vars(SessionDeliver1) /\ WF_vars(SessionDeliver2)

\* ----------------------------------------------------------- claims ---
SocketIdsOf(cs) == {cs[i].socketId : i \in DOMAIN cs}
Elements(seq) == {seq[i] : i \in DOMAIN seq}
SentActions(r) == {r.sent[i].action : i \in DOMAIN r.sent}
Seeks(r) == {r.cmds[i] : i \in {j \in DOMAIN r.cmds : r.cmds[j][1] = "seekTo"}}
QueueSnapshot(d) == Msg("queue", d)

\* C1. Convergence: whatever the queue holds after the deltas and selection
\* changes so far, the queue right after an inbound QUEUE snapshot
\* {video, videos} is the sequence videos, in order, and nothing else.
C1_Convergence ==
  Open =>
    \A d \in QueueSnapshots(MaxQueue) :
      Contents(MessageStep(State, QueueSnapshot(d)).queue) = d.videos

\* C1 witness: an ADD_TO_QUEUE delta has just been applied, the queue holds
\* two entries, and a snapshot with other videos in another order replaces
\* them all.
C1_Witness ==
  /\ Open /\ event = [h |-> "onWsMessage", a |-> "add-to-queue"]
  /\ Len(queue) = 2 /\ queue[1].videoId # queue[2].videoId
  /\ \E d \in QueueSnapshots(MaxQueue) :
       /\ Len(d.videos) = 2
       /\ d.videos[1] = Contents(queue)[2] /\ d.videos[2] = Contents(queue)[1]
       /\ Contents(MessageStep(State, QueueSnapshot(d)).queue) = d.videos

\* C2. Snapshot idempotence: handling a QUEUE snapshot a second time leaves
\* the queue (contents, order, selected marking) as the first time left it.
C2_SnapshotIdempotent ==
  Open =>
    \A d \in QueueSnapshots(MaxQueue) :
      LET once == MessageStep(State, QueueSnapshot(d))
      IN  MessageStep(once, QueueSnapshot(d)).queue = once.queue

\* C2 witness: a snapshot with two videos, one of them selected, has just
\* been handled, and handling it again changes nothing.
C2_Witness ==
  /\ Open /\ event = [h |-> "onWsMessage", a |-> "queue"]
  /\ Len(queue) = 2 /\ queue[2].selected /\ ~queue[1].selected
  /\ \E d \in QueueSnapshots(MaxQueue) :
       /\ d.videos = Contents(queue) /\ d.video = d.videos[2]
       /\ MessageStep(State, QueueSnapshot(d)).queue = queue

\* C3. A full roster snapshot replaces the roster: after an inbound CLIENTS
\* with list L the roster holds exactly the clients of L.
C3_SnapshotReplacesRoster ==
  Open =>
    \A l \in SeqsUpTo(Clients, MaxClients) :
      Elements(MessageStep(State, Msg("clients", JClients(l))).clients)
        = Elements(l)

\* C4. No PLAY_VIDEO feedback loop: neither the handler of an inbound
\* PLAY_VIDEO(v) nor the url-change callback that sees the navigation this
\* handler made sends an outbound PLAY_VIDEO(v).
C4_NoPlayVideoFeedback ==
  /\ event = [h |-> "onWsMessage", a |-> "play-video"]
       => "play-video" \notin SentActions(State)
  /\ event = [h |-> "onUrlChange", a |-> "inbound"]
       => \A i \in DOMAIN sent :
            ~(sent[i].action = "play-video" /\ sent[i].data = JStr(url.v))

\* C5. An inbound AUTOPLAY(value) sets the local flag to value and sends
\* nothing.
C5_InboundAutoplaySilent ==
  Open =>
    \A b \in BOOLEAN :
      /\ MessageStep(State, Msg("autoplay", JBool(b))).autoplay = b
      /\ MessageStep(State, Msg("autoplay", JBool(b))).sent = <<>>

\* The number of ms thousandths of a second that is a double as it is
\* written (a multiple of an eighth of a second).
Milli(ms) ==
  Num(ms < 0, natDigits(Abs(ms) \div 1000),
      stripTrailing(<<(Abs(ms) % 1000) \div 100, (Abs(ms) % 100) \div 10,
                      Abs(ms) % 10>>))
Exact(chars, ms) == <<chars, ms, Milli(ms)>>

\* The thousandths of a second of a position, those after the third digit
\* after the point cut.
Millis(x) == natValue(x.int) * 1000 + natValue(SubSeq(x.frac \o <<0, 0, 0>>, 1, 3))

\* Payloads of PLAY, PAUSE and SEEK with the finite number each of them
\* stands for, in thousandths of a second (cut) and as the double parseFloat
\* has to give: the stringified positions and other spellings; numbers off
\* the half-second grid; numbers of many digits; white space of every kind
\* in front. The first are doubles as they are written; the last are not
\* ("1.0000000000000001" is nearer to 1 than to the next double), and
\* parseFloat gives the double next to them, written here digit by digit.
WireTimes ==
  {Exact(toString(Half(t)), 500 * t) : t \in 0..MaxTime}
    \cup {Exact(<<" ", "1">>, 1000),
          Exact(<<"+", "1">>, 1000),
          Exact(<<"1", "e", "0">>, 1000),
          Exact(<<"5", "e", "-", "1">>, 500),
          Exact(<<"-", "1">>, -1000),
          Exact(<<"1", "e", "1">>, 10000),
          Exact(<<".", "5">>, 500),
          Exact(<<"1", ".", "5", "0", "x">>, 1500),
          Exact(<<"\t", "-", "0", ".", "5", "E", "+", "1", "x">>, -5000),
          Exact(<<"1", ".", "2", "5">>, 1250),
          Exact(<<"2", ".", "2", "5">>, 2250),
          Exact(<<"0", ".", "7", "5">>, 750),
          Exact(<<"-", "0", ".", "2", "5">>, -250),
          Exact(<<"1", ".", "0", "0", "0", "0", "0", "0", "0", "0", "0", "0">>, 1000),
          Exact(<<"\f", "1">>, 1000),
          Exact(<<"\\u00a0", "1">>, 1000)}
    \cup {<<<<"-", "0">>, 0, Zero(TRUE)>>}
    \cup {<<<<"0", ".", "1">>, 100,
            Num(FALSE, <<>>,
                <<1, 0, 0, 0, 0, 0, 0, 0, 0, 0, 0, 0, 0, 0, 0, 0, 0, 5, 5, 5,
                  1, 1, 1, 5, 1, 2, 3, 1, 2, 5, 7, 8, 2, 7, 0, 2, 1, 1, 8, 1,
                  5, 8, 3, 4, 0, 4, 5, 4, 1, 0, 1, 5, 6, 2, 5>>)>>,
          <<<<"1", ".", "0", "0", "0", "0", "0", "0", "0", "0", "0", "0", "0",
              "0", "0", "0", "0", "1">>, 1000,
            Num(FALSE, <<1>>, <<>>)>>}

\* Payloads that stand for numbers far above every position of the model,
\* with the double parseFloat has to give.
FarTimes ==
  {<<<<"1", "e", "8">>,
     Num(FALSE, <<1, 0, 0, 0, 0, 0, 0, 0, 0>>, <<>>)>>,
   <<<<"1", "2", "3", "4", "5", "6", "7", "8", "9", "0", "1">>,
     Num(FALSE, <<1, 2, 3, 4, 5, 6, 7, 8, 9, 0, 1>>, <<>>)>>}

\* A payload of 1 written with a long fraction and a long exponent:
\* 0.00...01e100000, with 99999 zeros after the point.
LongOneChars ==
  <<"0", ".">> \o [i \in 1..99999 |-> "0"] \o <<"1", "e", "1", "0", "0", "0", "0", "0">>

\* More payloads with the double parseFloat has to give: fractions that are
\* no double, integers of 9 digits and more, an integer above 2^53 between
\* two doubles, the least and the greatest double, exponents of many
\* digits.
ReadTimes ==
  {<<LongOneChars, Num(FALSE, <<1>>, <<>>)>>,
   <<<<"1", "e", "-", "9", "9", "9", "9", "9", "9", "9", "9", "9", "9", "9">>,
     Zero(FALSE)>>,
   <<<<"+", "1", "e", "-", "1", "0", "0", "0", "0", "0">>, Zero(FALSE)>>,
   <<<<"1", "e", "0", "0", "0", "0", "0", "0", "0", "0", "0", "0", "0", "2">>,
     Num(FALSE, <<1, 0, 0>>, <<>>)>>,
   <<<<"0", ".", "0", "0", "0", "1", "e", "1", "0", "0", "0", "0", "0">>, Infinity>>,
   <<<<"1", ".", "5", "e", "1">>,
     Num(FALSE, <<1, 5>>, <<>>)>>,
   <<<<"1", ".", "e", "1">>,
     Num(FALSE, <<1, 0>>, <<>>)>>,
   <<<<"1", "e">>,
     Num(FALSE, <<1>>, <<>>)>>,
   <<<<"1", "0", "0", "0", "0", "0", "0", "0", "0", "0", "0", "e", "-", "1",
       "0">>,
     Num(FALSE, <<1>>, <<>>)>>,
   <<<<"0", ".", "0", "0", "0", "0", "0", "0", "0", "0", "0", "1", "e", "1",
       "0">>,
     Num(FALSE, <<1>>, <<>>)>>,
   <<<<"\\u000b", "1">>,
     Num(FALSE, <<1>>, <<>>)>>,
   <<<<"\\ufeff", "1">>,
     Num(FALSE, <<1>>, <<>>)>>,
   <<<<"\\u2028", "1">>,
     Num(FALSE, <<1>>, <<>>)>>,
   <<<<"\\u3000", "\r", "\n", " ", "1", ".", "5">>,
     Num(FALSE, <<1>>,
         <<5>>)>>,
   <<<<"1", "e", "-", "1">>,
     Num(FALSE, <<>>,
         <<1, 0, 0, 0, 0, 0, 0, 0, 0, 0, 0, 0, 0, 0, 0, 0, 0, 5, 5, 5, 1, 1,
           1, 5, 1, 2, 3, 1, 2, 5, 7, 8, 2, 7, 0, 2, 1, 1, 8, 1, 5, 8, 3, 4,
           0, 4, 5, 4, 1, 0, 1, 5, 6, 2, 5>>)>>,
   <<<<"1", "e", "-", "2">>,
     Num(FALSE, <<>>,
         <<0, 1, 0, 0, 0, 0, 0, 0, 0, 0, 0, 0, 0, 0, 0, 0, 0, 0, 2, 0, 8, 1,
           6, 6, 8, 1, 7, 1, 1, 7, 2, 1, 6, 8, 5, 1, 3, 2, 9, 4, 3, 0, 9, 3,
           7, 7, 6, 7, 0, 2, 8, 8, 0, 8, 5, 9, 3, 7, 5>>)>>,
   <<<<"1", ".", "1">>,
     Num(FALSE, <<1>>,
         <<1, 0, 0, 0, 0, 0, 0, 0, 0, 0, 0, 0, 0, 0, 0, 0, 8, 8, 8, 1, 7, 8,
           4, 1, 9, 7, 0, 0, 1, 2, 5, 2, 3, 2, 3, 3, 8, 9, 0, 5, 3, 3, 4, 4,
           7, 2, 6, 5, 6, 2, 5>>)>>,
   <<<<"1", "2", ".", "3", "4", "5", "6", "7", "8">>,
     Num(FALSE, <<1, 2>>,
         <<3, 4, 5, 6, 7, 7, 9, 9, 9, 9, 9, 9, 9, 9, 9, 4, 8, 5, 6, 8, 0, 7,
           4, 6, 1, 4, 7, 4, 0, 9, 0, 8, 1, 4, 5, 9, 0, 4, 5, 4, 1, 0, 1, 5,
           6, 2, 5>>)>>,
   <<<<"7", "3", ".", "4", "5", "6", "7", "8", "9", "0", "1", "2">>,
     Num(FALSE, <<7, 3>>,
         <<4, 5, 6, 7, 8, 9, 0, 1, 2, 0, 0, 0, 0, 0, 1, 5, 4, 8, 5, 8, 5, 7,
           1, 4, 7, 7, 2, 3, 4, 3, 6, 3, 5, 5, 5, 9, 0, 8, 2, 0, 3, 1, 2, 5>>)>>,
   <<<<"1", "e", "-", "9">>,
     Num(FALSE, <<>>,
         <<0, 0, 0, 0, 0, 0, 0, 0, 1, 0, 0, 0, 0, 0, 0, 0, 0, 0, 0, 0, 0, 0,
           0, 0, 0, 6, 2, 2, 8, 1, 5, 9, 1, 4, 5, 7, 7, 7, 9, 8, 5, 6, 4, 1,
           8, 8, 9, 7, 0, 6, 8, 6, 9, 2, 7, 8, 5, 9, 7, 8, 7, 8, 2, 9, 2, 2,
           0, 2, 9, 4, 9, 5, 2, 3, 9, 2, 5, 7, 8, 1, 2, 5>>)>>,
   <<<<"0", ".", "0", "0", "0", "0", "0", "0", "0", "0", "0", "1">>,
     Num(FALSE, <<>>,
         <<0, 0, 0, 0, 0, 0, 0, 0, 0, 1, 0, 0, 0, 0, 0, 0, 0, 0, 0, 0, 0, 0,
           0, 0, 0, 0, 3, 6, 4, 3, 2, 1, 9, 7, 3, 1, 5, 4, 9, 7, 7, 4, 1, 5,
           7, 9, 1, 6, 5, 5, 4, 7, 0, 6, 5, 5, 9, 9, 6, 3, 9, 6, 0, 8, 9, 9,
           0, 4, 0, 1, 0, 2, 9, 5, 8, 6, 7, 9, 1, 9, 9, 2, 1, 8, 7, 5>>)>>,
   <<<<"1", "0", "0", "0", "0", "0", "0", "0", "0">>,
     Num(FALSE, <<1, 0, 0, 0, 0, 0, 0, 0, 0>>, <<>>)>>,
   <<<<"5", "3", "6", "8", "7", "0", "9", "1", "2">>,
     Num(FALSE, <<5, 3, 6, 8, 7, 0, 9, 1, 2>>, <<>>)>>,
   <<<<"1", "e", "9">>,
     Num(FALSE, <<1, 0, 0, 0, 0, 0, 0, 0, 0, 0>>, <<>>)>>,
   <<<<"9", "9", "9", "9", "9", "9", "9", "9">>,
     Num(FALSE, <<9, 9, 9, 9, 9, 9, 9, 9>>, <<>>)>>,
   <<<<"4", "9", "9", "9", "9", "9", "9", "9", ".", "5">>,
     Num(FALSE, <<4, 9, 9, 9, 9, 9, 9, 9>>,
         <<5>>)>>,
   <<<<"1", "e", "2", "1">>,
     Num(FALSE, <<1, 0, 0, 0, 0, 0, 0, 0, 0, 0, 0, 0, 0, 0, 0, 0, 0, 0, 0, 0,
           0, 0>>,
         <<>>)>>,
   <<<<"1", "2", "3", "4", "5", "6", "7", "8", "9", "0", "1", "2", "3", "4",
       "5", "6", "7", "8">>,
     Num(FALSE, <<1, 2, 3, 4, 5, 6, 7, 8, 9, 0, 1, 2, 3, 4, 5, 6, 8, 0>>, <<>>)>>,
   <<<<"9", "0", "0", "7", "1", "9", "9", "2", "5", "4", "7", "4", "0", "9",
       "9", "3">>,
     Num(FALSE, <<9, 0, 0, 7, 1, 9, 9, 2, 5, 4, 7, 4, 0, 9, 9, 2>>, <<>>)>>,
   <<<<"5", "e", "-", "3", "2", "4">>,
     Num(FALSE, <<>>,
         <<0, 0, 0, 0, 0, 0, 0, 0, 0, 0, 0, 0, 0, 0, 0, 0, 0, 0, 0, 0, 0, 0,
           0, 0, 0, 0, 0, 0, 0, 0, 0, 0, 0, 0, 0, 0, 0, 0, 0, 0, 0, 0, 0, 0,
           0, 0, 0, 0, 0, 0, 0, 0, 0, 0, 0, 0, 0, 0, 0, 0, 0, 0, 0, 0, 0, 0,
           0, 0, 0, 0, 0, 0, 0, 0, 0, 0, 0, 0, 0, 0, 0, 0, 0, 0, 0, 0, 0, 0,
           0, 0, 0, 0, 0, 0, 0, 0, 0, 0, 0, 0, 0, 0, 0, 0, 0, 0, 0, 0, 0, 0,
           0, 0, 0, 0, 0, 0, 0, 0, 0, 0, 0, 0, 0, 0, 0, 0, 0, 0, 0, 0, 0, 0,
           0, 0, 0, 0, 0, 0, 0, 0, 0, 0, 0, 0, 0, 0, 0, 0, 0, 0, 0, 0, 0, 0,
           0, 0, 0, 0, 0, 0, 0, 0, 0, 0, 0, 0, 0, 0, 0, 0, 0, 0, 0, 0, 0, 0,
           0, 0, 0, 0, 0, 0, 0, 0, 0, 0, 0, 0, 0, 0, 0, 0, 0, 0, 0, 0, 0, 0,
           0, 0, 0, 0, 0, 0, 0, 0, 0, 0, 0, 0, 0, 0, 0, 0, 0, 0, 0, 0, 0, 0,
           0, 0, 0, 0, 0, 0, 0, 0, 0, 0, 0, 0, 0, 0, 0, 0, 0, 0, 0, 0, 0, 0,
           0, 0, 0, 0, 0, 0, 0, 0, 0, 0, 0, 0, 0, 0, 0, 0, 0, 0, 0, 0, 0, 0,
           0, 0, 0, 0, 0, 0, 0, 0, 0, 0, 0, 0, 0, 0, 0, 0, 0, 0, 0, 0, 0, 0,
           0, 0, 0, 0, 0, 0, 0, 0, 0, 0, 0, 0, 0, 0, 0, 0, 0, 0, 0, 0, 0, 0,
           0, 0, 0, 0, 0, 0, 0, 0, 0, 0, 0, 0, 0, 0, 0, 4, 9, 4, 0, 6, 5, 6,
           4, 5, 8, 4, 1, 2, 4, 6, 5, 4, 4, 1, 7, 6, 5, 6, 8, 7, 9, 2, 8, 6,
           8, 2, 2, 1, 3, 7, 2, 3, 6, 5, 0, 5, 9, 8, 0, 2, 6, 1, 4, 3, 2, 4,
           7, 6, 4, 4, 2, 5, 5, 8, 5, 6, 8, 2, 5, 0, 0, 6, 7, 5, 5, 0, 7, 2,
           7, 0, 2, 0, 8, 7, 5, 1, 8, 6, 5, 2, 9, 9, 8, 3, 6, 3, 6, 1, 6, 3,
           5, 9, 9, 2, 3, 7, 9, 7, 9, 6, 5, 6, 4, 6, 9, 5, 4, 4, 5, 7, 1, 7,
           7, 3, 0, 9, 2, 6, 6, 5, 6, 7, 1, 0, 3, 5, 5, 9, 3, 9, 7, 9, 6, 3,
           9, 8, 7, 7, 4, 7, 9, 6, 0, 1, 0, 7, 8, 1, 8, 7, 8, 1, 2, 6, 3, 0,
           0, 7, 1, 3, 1, 9, 0, 3, 1, 1, 4, 0, 4, 5, 2, 7, 8, 4, 5, 8, 1, 7,
           1, 6, 7, 8, 4, 8, 9, 8, 2, 1, 0, 3, 6, 8, 8, 7, 1, 8, 6, 3, 6, 0,
           5, 6, 9, 9, 8, 7, 3, 0, 7, 2, 3, 0, 5, 0, 0, 0, 6, 3, 8, 7, 4, 0,
           9, 1, 5, 3, 5, 6, 4, 9, 8, 4, 3, 8, 7, 3, 1, 2, 4, 7, 3, 3, 9, 7,
           2, 7, 3, 1, 6, 9, 6, 1, 5, 1, 4, 0, 0, 3, 1, 7, 1, 5, 3, 8, 5, 3,
           9, 8, 0, 7, 4, 1, 2, 6, 2, 3, 8, 5, 6, 5, 5, 9, 1, 1, 7, 1, 0, 2,
           6, 6, 5, 8, 5, 5, 6, 6, 8, 6, 7, 6, 8, 1, 8, 7, 0, 3, 9, 5, 6, 0,
           3, 1, 0, 6, 2, 4, 9, 3, 1, 9, 4, 5, 2, 7, 1, 5, 9, 1, 4, 9, 2, 4,
           5, 5, 3, 2, 9, 3, 0, 5, 4, 5, 6, 5, 4, 4, 4, 0, 1, 1, 2, 7, 4, 8,
           0, 1, 2, 9, 7, 0, 9, 9, 9, 9, 5, 4, 1, 9, 3, 1, 9, 8, 9, 4, 0, 9,
           0, 8, 0, 4, 1, 6, 5, 6, 3, 3, 2, 4, 5, 2, 4, 7, 5, 7, 1, 4, 7, 8,
           6, 9, 0, 1, 4, 7, 2, 6, 7, 8, 0, 1, 5, 9, 3, 5, 5, 2, 3, 8, 6, 1,
           1, 5, 5, 0, 1, 3, 4, 8, 0, 3, 5, 2, 6, 4, 9, 3, 4, 7, 2, 0, 1, 9,
           3, 7, 9, 0, 2, 6, 8, 1, 0, 7, 1, 0, 7, 4, 9, 1, 7, 0, 3, 3, 3, 2,
           2, 2, 6, 8, 4, 4, 7, 5, 3, 3, 3, 5, 7, 2, 0, 8, 3, 2, 4, 3, 1, 9,
           3, 6, 0, 9, 2, 3, 8, 2, 8, 9, 3, 4, 5, 8, 3, 6, 8, 0, 6, 0, 1, 0,
           6, 0, 1, 1, 5, 0, 6, 1, 6, 9, 8, 0, 9, 7, 5, 3, 0, 7, 8, 3, 4, 2,
           2, 7, 7, 3, 1, 8, 3, 2, 9, 2, 4, 7, 9, 0, 4, 9, 8, 2, 5, 2, 4, 7,
           3, 0, 7, 7, 6, 3, 7, 5, 9, 2, 7, 2, 4, 7, 8, 7, 4, 6, 5, 6, 0, 8,
           4, 7, 7, 8, 2, 0, 3, 7, 3, 4, 4, 6, 9, 6, 9, 9, 5, 3, 3, 6, 4, 7,
           0, 1, 7, 9, 7, 2, 6, 7, 7, 7, 1, 7, 5, 8, 5, 1, 2, 5, 6, 6, 0, 5,
           5, 1, 1, 9, 9, 1, 3, 1, 5, 0, 4, 8, 9, 1, 1, 0, 1, 4, 5, 1, 0, 3,
           7, 8, 6, 2, 7, 3, 8, 1, 6, 7, 2, 5, 0, 9, 5, 5, 8, 3, 7, 3, 8, 9,
           7, 3, 3, 5, 9, 8, 9, 9, 3, 6, 6, 4, 8, 0, 9, 9, 4, 1, 1, 6, 4, 2,
           0, 5, 7, 0, 2, 6, 3, 7, 0, 9, 0, 2, 7, 9, 2, 4, 2, 7, 6, 7, 5, 4,
           4, 5, 6, 5, 2, 2, 9, 0, 8, 7, 5, 3, 8, 6, 8, 2, 5, 0, 6, 4, 1, 9,
           7, 1, 8, 2, 6, 5, 5, 3, 3, 4, 4, 7, 2, 6, 5, 6, 2, 5>>)>>,
   <<<<"1", ".", "7", "9", "7", "6", "9", "3", "1", "3", "4", "8", "6", "2",
       "3", "1", "5", "7", "e", "3", "0", "8">>,
     Num(FALSE, <<1, 7, 9, 7, 6, 9, 3, 1, 3, 4, 8, 6, 2, 3, 1, 5, 7, 0, 8, 1,
           4, 5, 2, 7, 4, 2, 3, 7, 3, 1, 7, 0, 4, 3, 5, 6, 7, 9, 8, 0, 7, 0,
           5, 6, 7, 5, 2, 5, 8, 4, 4, 9, 9, 6, 5, 9, 8, 9, 1, 7, 4, 7, 6, 8,
           0, 3, 1, 5, 7, 2, 6, 0, 7, 8, 0, 0, 2, 8, 5, 3, 8, 7, 6, 0, 5, 8,
           9, 5, 5, 8, 6, 3, 2, 7, 6, 6, 8, 7, 8, 1, 7, 1, 5, 4, 0, 4, 5, 8,
           9, 5, 3, 5, 1, 4, 3, 8, 2, 4, 6, 4, 2, 3, 4, 3, 2, 1, 3, 2, 6, 8,
           8, 9, 4, 6, 4, 1, 8, 2, 7, 6, 8, 4, 6, 7, 5, 4, 6, 7, 0, 3, 5, 3,
           7, 5, 1, 6, 9, 8, 6, 0, 4, 9, 9, 1, 0, 5, 7, 6, 5, 5, 1, 2, 8, 2,
           0, 7, 6, 2, 4, 5, 4, 9, 0, 0, 9, 0, 3, 8, 9, 3, 2, 8, 9, 4, 4, 0,
           7, 5, 8, 6, 8, 5, 0, 8, 4, 5, 5, 1, 3, 3, 9, 4, 2, 3, 0, 4, 5, 8,
           3, 2, 3, 6, 9, 0, 3, 2, 2, 2, 9, 4, 8, 1, 6, 5, 8, 0, 8, 5, 5, 9,
           3, 3, 2, 1, 2, 3, 3, 4, 8, 2, 7, 4, 7, 9, 7, 8, 2, 6, 2, 0, 4, 1,
           4, 4, 7, 2, 3, 1, 6, 8, 7, 3, 8, 1, 7, 7, 1, 8, 0, 9, 1, 9, 2, 9,
           9, 8, 8, 1, 2, 5, 0, 4, 0, 4, 0, 2, 6, 1, 8, 4, 1, 2, 4, 8, 5, 8,
           3, 6, 8>>,
         <<>>)>>}

\* parseFloat gives each of these payloads the double next to the number
\* written.
ReadsAsWritten == \A w \in ReadTimes : parseFloat(JNum(w[1])) = w[2]

\* 1 + 2^-52, the double next above 1, and how it is written: it is above
\* the margin seen from 0.
JustAboveOneChars ==
  <<"1", ".", "0", "0", "0", "0", "0", "0", "0", "0", "0", "0", "0", "0", "0", "0",
    "0", "2">>
JustAboveOne ==
  Num(FALSE, <<1>>,
      <<0, 0, 0, 0, 0, 0, 0, 0, 0, 0, 0, 0, 0, 0, 0, 2, 2, 2, 0, 4, 4, 6,
        0, 4, 9, 2, 5, 0, 3, 1, 3, 0, 8, 0, 8, 4, 7, 2, 6, 3, 3, 3, 6, 1,
        8, 1, 6, 4, 0, 6, 2, 5>>)

\* C6. Margin reconciliation: with the local position p, an inbound PLAY(t)
\* or PAUSE(t) seeks (to t, once) if and only if |p - t| > 1.0; at
\* |p - t| = 1.0 and below there is no seek.
C6_MarginReconciliation ==
  Open =>
    /\ \A a \in {"play", "pause"}, w \in WireTimes :
         Seeks(MessageStep(State, Msg(a, JNum(w[1]))))
           = IF Abs(Millis(currentTime) - w[2]) > 1000 * Margin
             THEN {<<"seekTo", w[3]>>} ELSE {}
    /\ \A a \in {"play", "pause"}, w \in FarTimes :
         Seeks(MessageStep(State, Msg(a, JNum(w[1])))) = {<<"seekTo", w[2]>>}
    /\ \A a \in {"play", "pause"} :
         /\ Seeks(MessageStep(State, Msg(a, JNum(InfinityChars))))
              = {<<"seekTo", Infinity>>}
         /\ Seeks(MessageStep(State, Msg(a, JNum(<<"1", "e", "9", "9", "9", "9", "9",
                                                     "9", "9", "9", "9", "9", "9">>))))
              = {<<"seekTo", Infinity>>}
         /\ Seeks(MessageStep(State, Msg(a, JNum(JustAboveOneChars))))
              = IF Millis(currentTime) = 0 \/ Millis(currentTime) > 2000
                THEN {<<"seekTo", JustAboveOne>>} ELSE {}

\* C6 witness: a PLAY has just been handled, the position is 1.5 s; a PLAY
\* for 0.5 s (exactly 1.0 s away) does not seek, a PLAY for 0 s does, and
\* so does one for 0.25 s.
C6_Witness ==
  /\ Open /\ event = [h |-> "onWsMessage", a |-> "play"]
  /\ currentTime = Half(3)
  /\ Seeks(MessageStep(State, Msg("play", JNum(<<"0", ".", "5">>)))) = {}
  /\ Seeks(MessageStep(State, Msg("play", JNum(<<"0">>)))) = {<<"seekTo", Half(0)>>}
  /\ Seeks(MessageStep(State, Msg("play", JNum(<<"0", ".", "2", "5">>))))
       = {<<"seekTo", Milli(250)>>}

\* What a frame that is dropped leaves as it was: everything but the record
\* of the handler that ran.
Untouched(r) ==
  /\ r.queue = queue /\ r.clients = clients /\ r.autoplay = autoplay
  /\ r.url = url /\ r.urlParams = urlParams /\ r.loading = loading
  /\ r.lastUrl = lastUrl /\ r.navOrigin = navOrigin
  /\ r.playerState = playerState /\ r.currentTime = currentTime
  /\ r.pendingState = pendingState /\ r.seekNote = seekNote
  /\ r.ytPlayer = ytPlayer /\ r.ws = ws /\ r.page = page

\* C7. Fail-soft decode: a frame that is no JSON, or whose action the
\* switch has no case for (REACTION among them), leaves the handler without
\* an exception escaping, with queue, roster, autoplay flag and player
\* untouched, no player command and nothing sent; the frame that does not
\* parse is logged.
C7_FailSoftDecode ==
  Open =>
    \A f \in UnhandledFrames :
      /\ MessageStep(State, f).thrown # "uncaught"
      /\ f \in {Unparseable, JsonNull} => MessageStep(State, f).thrown = "caught"
      /\ MessageStep(State, f).sent = <<>>
      /\ MessageStep(State, f).cmds = <<>>
      /\ Untouched(MessageStep(State, f))

\* C7 witness: a frame that is no JSON has just been handled, with a queue
\* of two entries in place: it was logged and nothing was sent.
C7_Witness ==
  /\ event = [h |-> "onWsMessage", a |-> "text"]
  /\ thrown = "caught" /\ sent = <<>> /\ cmds = <<>>
  /\ Len(queue) = 2 /\ ~autoplay

\* The end of a video made no navigation: location and selection are as
\* they were.
NoNavigation(r) ==
  r.url = url /\ r.navOrigin = navOrigin /\ r.queue = queue /\ r.sent = <<>>

\* The end of a video made the navigation to videoId: the page is on it
\* (by app.onYtNavigate_, unless it was there already).
NavigatedTo(r, videoId) ==
  /\ r.url.v = videoId
  /\ url.v # videoId => r.navOrigin = "autoplay"
  /\ Contents(r.queue) = Contents(queue)

\* C8. Autoplay boundary: on ENDED with autoplay on, an empty queue and a
\* selected last slot give no navigation; a selected slot i that is not the
\* last one gives the navigation to slot i + 1.
C8_AutoplayBoundary ==
  (Created /\ autoplay) =>
    /\ queue = <<>> => NoNavigation(StateChangeStep(State, "ENDED"))
    /\ \A i \in DOMAIN queue :
         SelectedSlots(queue) = {i} =>
           IF i = Len(queue)
           THEN NoNavigation(StateChangeStep(State, "ENDED"))
           ELSE /\ NavigatedTo(StateChangeStep(State, "ENDED"), queue[i + 1].videoId)
                /\ StateChangeStep(State, "ENDED").queue[i + 1].selected

\* C8 witness: ENDED has just been handled with autoplay on; the first slot
\* was selected, now the second one is and the page is on its video.
C8_Witness ==
  /\ event = [h |-> "onStateChange", a |-> "local"] /\ playerState = "ENDED"
  /\ autoplay /\ navOrigin = "autoplay"
  /\ Len(queue) = 2 /\ queue[1].videoId # queue[2].videoId
  /\ SelectedSlots(queue) = {2} /\ url.v = queue[2].videoId

\* Every step the client can take from s, but the handling of an inbound
\* QUEUE, ADD_TO_QUEUE or REMOVE_FROM_QUEUE.
QueueActions == {"queue", "add-to-queue", "remove-from-queue"}
OtherFrames ==
  {f \in QueueFrames(0) \cup RosterFrames(1) \cup PlaybackFrames(1)
            \cup UnhandledFrames : actionOf(f) \notin QueueActions}
OtherSteps(s) ==
  {CreateStep(s, got) : got \in {"null", "player"}}
    \cup {ConnectStep(s, video) : video \in Videos}
    \cup {MessageStep(s, f) : f \in OtherFrames}
    \cup {StateChangeStep(s, state) : state \in PlayerStates}
    \cup {StateNotifyStep(s), DropStep(s)}
    \cup {UserSeekStep(s, t) : t \in 0..MaxTime}
    \cup {TickStep(s), SeekPollStep(s), UrlPollStep(s)}
    \cup {UserNavigateStep(s, n) : n \in Urls}
    \cup {StorePollStep(s, video) : video \in Videos}
    \cup {ToggleStep(s, b) : b \in BOOLEAN}
    \cup {ClickStep(s, i) : i \in DOMAIN s.queue}
    \cup {DeleteStep(s, i) : i \in DOMAIN s.queue}
    \cup {PageLoadStep(s), LeaveSyncStep(s)}
    \cup {PromoteStep(s, client) : client \in Clients}
    \cup {UnpromoteStep(s, client) : client \in Clients}
    \cup {SocketTimeStep(s, type, player) :
            type \in {"play", "pause", "seek"}, player \in {"player", "null"}}
    \cup {SocketAddStep(s, video) : video \in Videos}
    \cup {SocketRemoveStep(s, videoId) : videoId \in VideoIds}
    \cup {SocketReactionStep(s, reaction) : reaction \in Reactions}
    \cup {SocketPlayVideoStep(s, videoId) : videoId \in VideoIds}
    \cup {SocketAutoplayStep(s, b) : b \in BOOLEAN}

\* C9. Confirmation-only queue mutation: the local add requests (queue-store
\* poll, connect handshake) and the local remove request only send
\* ADD_TO_QUEUE / REMOVE_FROM_QUEUE and leave the queue as it is, and no
\* step but the handling of an inbound QUEUE, ADD_TO_QUEUE or
\* REMOVE_FROM_QUEUE changes the queue contents.
C9_ConfirmationOnly ==
  Created =>
    /\ \A video \in Videos :
         /\ StorePollStep(State, video).queue = queue
         /\ StorePollStep(State, video).sent
              = <<[action |-> "add-to-queue", data |-> video]>>
         /\ ConnectStep(State, video).queue = queue
         /\ ConnectStep(State, video).sent[1]
              = [action |-> "add-to-queue", data |-> video]
    /\ \A i \in DOMAIN queue :
         /\ DeleteStep(State, i).queue = queue
         /\ DeleteStep(State, i).sent
              = <<[action |-> "remove-from-queue", data |-> JStr(queue[i].videoId)]>>
    /\ \A r \in OtherSteps(State) : Contents(r.queue) = Contents(queue)

\* C9 witness: the delete button of an entry has just been used: the
\* request is sent and the entry is still in the queue.
C9_Witness ==
  /\ event = [h |-> "queueDelete", a |-> "delete"]
  /\ Len(queue) = 2
  /\ \E i \in DOMAIN queue :
       sent = <<[action |-> "remove-from-queue", data |-> JStr(queue[i].videoId)]>>

\* C10. Roster connect idempotence: a CLIENT_CONNECT for a socketId the
\* roster holds leaves the roster as it is, also when it is repeated.
C10_ConnectIdempotent ==
  Open =>
    \A c \in Clients :
      c.socketId \in SocketIdsOf(clients) =>
        /\ MessageStep(State, Msg("client-connect", c)).clients = clients
        /\ MessageStep(MessageStep(State, Msg("client-connect", c)),
                       Msg("client-connect", c)).clients = clients

\* C10 witness: a CLIENT_CONNECT has just been handled, the roster holds
\* two clients, and a connect for the socketId of the first (with the other
\* promoted flag) leaves the roster as it is.
C10_Witness ==
  /\ Open /\ event = [h |-> "onWsMessage", a |-> "client-connect"]
  /\ Len(clients) = 2 /\ clients[1].socketId # clients[2].socketId
  /\ MessageStep(State, Msg("client-connect",
                            JClient(clients[1].socketId, ~clients[1].promoted))).clients
       = clients

\* C11. Autoplay advance: with autoplay on and the selected slot not the
\* last one, a local ENDED selects the successor and navigates to it, the
\* ENDED handler sends nothing, and the url-change callback that then sees
\* this navigation sends no PLAY_VIDEO for the successor.
C11_AutoplayAdvanceSilent ==
  (Created /\ autoplay /\ url = lastUrl) =>
    \A i \in DOMAIN queue :
      (SelectedSlots(queue) = {i} /\ i < Len(queue)) =>
        /\ NavigatedTo(StateChangeStep(State, "ENDED"), queue[i + 1].videoId)
        /\ StateChangeStep(State, "ENDED").queue[i + 1].selected
        /\ StateChangeStep(State, "ENDED").sent = <<>>
        /\ StateChangeStep(State, "ENDED").url # lastUrl =>
             [action |-> "play-video", data |-> JStr(queue[i + 1].videoId)]
               \notin Elements(UrlPollStep(StateChangeStep(State, "ENDED")).sent)

\* The slots of q with the videoId id, and the others, in order.
SlotsWith(q, id) == SelectSeq(q, LAMBDA e : e.videoId = id)
SlotsWithout(q, id) == SelectSeq(q, LAMBDA e : e.videoId # id)

\* C12. Inbound remove by id: an inbound REMOVE_FROM_QUEUE whose payload is
\* a videoId (what the delete button sends) removes a slot with that videoId
\* when there is one, leaving the other slots as they are, and leaves the
\* queue unchanged when there is none.
C12_InboundRemoveById ==
  Open =>
    \A id \in VideoIds :
      IF SlotsWith(queue, id) # <<>>
      THEN /\ Len(SlotsWith(MessageStep(State, Msg("remove-from-queue", JStr(id))).queue, id))
                < Len(SlotsWith(queue, id))
           /\ SlotsWithout(MessageStep(State, Msg("remove-from-queue", JStr(id))).queue, id)
                = SlotsWithout(queue, id)
      ELSE MessageStep(State, Msg("remove-from-queue", JStr(id))).queue = queue

\* Payloads of PLAY, PAUSE and SEEK that parseFloat gives NaN for.
NotANumber == {d \in {JNum(c) : c \in TimeStrings(0)} \cup {JNull} : parseFloat(d) = NaN}

\* C13. Numeric parse failure is a no-op: an inbound PLAY, PAUSE or SEEK
\* whose payload does not parse to a number gives the player no command (no
\* seek, no play, no pause), sends nothing and changes no other state.
C13_ParseFailureNoOp ==
  Open =>
    \A a \in {"play", "pause", "seek"}, d \in NotANumber :
      /\ MessageStep(State, Msg(a, d)).cmds = <<>>
      /\ MessageStep(State, Msg(a, d)).sent = <<>>
      /\ Untouched(MessageStep(State, Msg(a, d)))

\* C14. No re-broadcast of remotely driven transitions: when the handling of
\* an inbound PLAY or PAUSE told the player to play or pause, the state-change
\* callback for that change sends nothing; when the handling of an inbound
\* PLAY, PAUSE or SEEK moved the position, the seek-poll callback that sees
\* the jump sends nothing.
C14_NoRebroadcast ==
  (Open /\ pendingState = "none" /\ seekNote = "none") =>
    \A f \in PlaybackFrames(MaxTime) :
      /\ MessageStep(State, f).pendingState # "none"
           => StateNotifyStep(MessageStep(State, f)).sent = <<>>
      /\ MessageStep(State, f).seekNote # "none"
           => SeekPollStep(MessageStep(State, f)).sent = <<>>

\* C15. The autoplay flag is never changed optimistically: the local toggle
\* only sends the AUTOPLAY request and leaves the flag as it is, and no step
\* but the handling of an inbound AUTOPLAY changes the flag.
C15_AutoplayConfirmationOnly ==
  Created =>
    /\ \A b \in BOOLEAN :
         /\ ToggleStep(State, b).autoplay = autoplay
         /\ b # autoplay =>
              ToggleStep(State, b).sent = <<[action |-> "autoplay", data |-> JBool(b)]>>
    /\ \A r \in OtherSteps(State) :
         r.event # [h |-> "onWsMessage", a |-> "autoplay"] => r.autoplay = autoplay

\* The roster holds every socketId once.
DistinctIds(cs) == Len(cs) = Cardinality(SocketIdsOf(cs))
Connect(s, c) == MessageStep(s, Msg("client-connect", c))
Disconnect(s, id) == MessageStep(s, Msg("client-disconnect", JStr(id)))

\* C16. Roster size: the size of the roster follows the count of socketIds:
\* in every reachable state a CLIENT_CONNECT makes the roster one client
\* larger when the roster does not hold the socketId and leaves its size
\* otherwise, and a CLIENT_DISCONNECT makes it one client smaller when the
\* roster holds the socketId and leaves its size otherwise (the unknown id).
C16_RosterSize ==
  Open =>
    /\ \A c \in Clients :
         Len(Connect(State, c).clients)
           = Len(clients) + (IF c.socketId \in SocketIdsOf(clients) THEN 0 ELSE 1)
    /\ \A id \in SocketIds :
         Len(Disconnect(State, id).clients)
           = Len(clients) - (IF id \in SocketIdsOf(clients) THEN 1 ELSE 0)

\* C17. No selected slot: with a non-empty queue none of whose slots is
\* selected, a local ENDED with autoplay on makes no navigation.
C17_NoSelectionNoNavigation ==
  (Created /\ autoplay /\ queue # <<>> /\ SelectedSlots(queue) = {}) =>
    NoNavigation(StateChangeStep(State, "ENDED"))

\* q without its first slot of the videoId id.
RemoveFirst(q, id) ==
  LET first == Min({i \in DOMAIN q : q[i].videoId = id})
  IN  [j \in 1..(Len(q) - 1) |-> IF j < first THEN q[j] ELSE q[j + 1]]

\* C18. Remove exactly one: with two or more slots of one videoId in the
\* queue, an inbound REMOVE_FROM_QUEUE for that id removes the first of them
\* and leaves the others, and the order of what remains, as they were.
C18_RemoveExactlyOne ==
  Open =>
    \A v \in Videos :
      Len(SlotsWith(queue, v.videoId)) >= 2 =>
        \A d \in {v, JStr(v.videoId)} :
          MessageStep(State, Msg("remove-from-queue", d)).queue
            = RemoveFirst(queue, v.videoId)

\* C19. An inbound ADD_TO_QUEUE(video) appends one unselected slot for the
\* video at the end of the queue, also when the queue holds its videoId
\* already, and leaves the slots before it, their order and their selected
\* marking as they were.
C19_AddAppends ==
  Open =>
    \A v \in Videos :
      MessageStep(State, Msg("add-to-queue", v)).queue
        = Append(queue, [videoId |-> v.videoId, title |-> v.title, selected |-> FALSE])

\* C19 witness: an ADD_TO_QUEUE for the video of the selected first slot has
\* just been handled: the queue holds it twice, the new slot unselected.
C19_Witness ==
  /\ Open /\ event = [h |-> "onWsMessage", a |-> "add-to-queue"]
  /\ Len(queue) = 2 /\ queue[1].videoId = queue[2].videoId
  /\ queue[1].selected /\ ~queue[2].selected

\* The videoIds of a snapshot's videos.
IdsOf(videos) == {videos[i].videoId : i \in DOMAIN videos}

\* C20. The QUEUE snapshot handler is total: for every snapshot, the empty
\* videos list, video = null and a video whose id is not in videos among
\* them, the handler ends without an exception and the queue holds videos;
\* with video = null or not in videos no slot is selected, otherwise the
\* slots of the video's id are.
C20_SnapshotTotal ==
  Open =>
    \A d \in QueueSnapshots(MaxQueue) :
      LET r == MessageStep(State, QueueSnapshot(d))
      IN  /\ r.thrown = "none"
          /\ Contents(r.queue) = d.videos
          /\ SelectedSlots(r.queue)
               = IF d.video = JNull THEN {}
                 ELSE {i \in DOMAIN d.videos : d.videos[i].videoId = d.video.videoId}

\* C20 witness: a snapshot has just been handled that left two unselected
\* slots of one video; the same videos with the other video as the current
\* one, and with null, give this queue, and the empty snapshot the empty one.
C20_Witness ==
  /\ Open /\ event = [h |-> "onWsMessage", a |-> "queue"] /\ thrown = "none"
  /\ Len(queue) = 2 /\ SelectedSlots(queue) = {}
  /\ \E v \in Videos :
       /\ v.videoId \notin IdsOf(Contents(queue))
       /\ MessageStep(State, QueueSnapshot(JQueue(v, Contents(queue)))).queue = queue
  /\ MessageStep(State, QueueSnapshot(JQueue(JNull, Contents(queue)))).queue = queue
  /\ MessageStep(State, QueueSnapshot(JQueue(JNull, <<>>))).queue = <<>>
  /\ MessageStep(State, QueueSnapshot(JQueue(JNull, <<>>))).thrown = "none"

\* The commands a handler gave the player, by name.
Commands(r) == {r.cmds[i][1] : i \in DOMAIN r.cmds}

\* C21. State gating of inbound PLAY/PAUSE: the handler of an inbound PLAY
\* tells the player to play if and only if the player state at the start of
\* the handler is PAUSED, the handler of an inbound PAUSE tells it to pause
\* if and only if that state is PLAYING, and neither handler gives the other
\* command; so in UNSTARTED, ENDED, BUFFERING and CUED neither is given.
C21_StateGating ==
  Open =>
    \A d \in {JNum(c) : c \in TimeStrings(MaxTime)} \cup {JNull} :
      LET p == MessageStep(State, Msg("play", d))
          q == MessageStep(State, Msg("pause", d))
      IN  /\ "playVideo" \in Commands(p) <=> playerState = "PAUSED"
          /\ "pauseVideo" \in Commands(q) <=> playerState = "PLAYING"
          /\ "pauseVideo" \notin Commands(p) /\ "playVideo" \notin Commands(q)

\* C21 witness: an inbound PLAY has just been handled on a PAUSED player and
\* gave the play command; an inbound PAUSE in this state gives no command.
C21_Witness ==
  /\ Open /\ event = [h |-> "onWsMessage", a |-> "play"]
  /\ playerState = "PAUSED" /\ Commands(State) = {"playVideo"}
  /\ Commands(MessageStep(State, Msg("pause", JNum(toString(currentTime))))) = {}

\* C22. An inbound SEEK(t) gives the player exactly one command, the seek
\* to t, at every local position (within the margin of t or not) and in
\* every player state: no play and no pause command.
C22_SeekUnconditional ==
  Open =>
    /\ \A w \in WireTimes :
         LET r == MessageStep(State, Msg("seek", JNum(w[1])))
         IN  r.cmds = <<<<"seekTo", w[3]>>>>
             /\ (w[2] >= 0 => r.currentTime = Num(FALSE, w[3].int, w[3].frac))
             /\ (w[2] < 0 => r.currentTime = currentTime)
             /\ r.playerState = playerState /\ r.pendingState = pendingState
    /\ \A w \in FarTimes :
         LET r == MessageStep(State, Msg("seek", JNum(w[1])))
         IN  r.cmds = <<<<"seekTo", w[2]>>>> /\ r.currentTime = w[2]
    /\ ReadsAsWritten
    /\ MessageStep(State, Msg("seek", JNum(InfinityChars))).cmds
         = <<<<"seekTo", Infinity>>>>
    /\ MessageStep(State, Msg("seek", JNum(<<"-">> \o InfinityChars))).cmds
         = <<<<"seekTo", NegInfinity>>>>

\* C22 witness: an inbound SEEK has just been handled on a PAUSED player and
\* left the position at 1.5 s; a SEEK to 1.0 s, within the margin, seeks.
C22_Witness ==
  /\ Open /\ event = [h |-> "onWsMessage", a |-> "seek"]
  /\ playerState = "PAUSED" /\ currentTime = Half(3)
  /\ cmds = <<<<"seekTo", Half(3)>>>>
  /\ MessageStep(State, Msg("seek", JNum(<<"1">>))).cmds = <<<<"seekTo", Half(2)>>>>

\* Number::toString gives digits that parseFloat reads as the same double,
\* for the doubles of the payloads above, those of many digits among them.
RoundTrips ==
  /\ \A w \in WireTimes :
       w[2] >= 0 => parseFloatChars(toString(w[3])) = Num(FALSE, w[3].int, w[3].frac)
  /\ \A w \in FarTimes \cup ReadTimes : parseFloatChars(toString(w[2])) = w[2]
  /\ parseFloatChars(toString(JustAboveOne)) = JustAboveOne
  /\ toString(JustAboveOne) = JustAboveOneChars
  /\ \E w \in WireTimes : w[1] = <<"0", ".", "1">> /\ toString(w[3]) = w[1]
  /\ \E w \in ReadTimes : w[1] = <<"1", "e", "2", "1">>
                             /\ toString(w[2]) = <<"1", "e", "+", "2", "1">>
  /\ \E w \in ReadTimes : w[1] = <<"1", "e", "-", "9">>
                             /\ toString(w[2]) = <<"1", "e", "-", "9">>

\* The one frame of a time message: the action and the position, stringified.
TimeFrame(a, t) == <<[action |-> a, data |-> JNum(toString(t))]>>

\* C23. Outbound playback events: a state-change notification to PLAYING
\* sends exactly one PLAY, one to PAUSED exactly one PAUSE, a seek-poll
\* detection exactly one SEEK, each carrying the current position (which
\* parses back to it); notifications to UNSTARTED, BUFFERING and CUED send
\* nothing.
C23_OutboundPlayback ==
  Created =>
    /\ StateChangeStep(State, "PLAYING").sent = TimeFrame("play", currentTime)
    /\ StateChangeStep(State, "PAUSED").sent = TimeFrame("pause", currentTime)
    /\ SeekPollStep(State).sent = TimeFrame("seek", currentTime)
    /\ parseFloat(JNum(toString(currentTime))) = currentTime
    /\ RoundTrips
    /\ \A state \in {"UNSTARTED", "BUFFERING", "CUED"} :
         StateChangeStep(State, state).sent = <<>>
    /\ pendingState # "none" =>
         StateNotifyStep(State).sent
           = TimeFrame(IF pendingState = "PLAYING" THEN "play" ELSE "pause", currentTime)

\* C23 witness: the player has just turned PLAYING at 1.5 s and one PLAY
\* with "1.5" went out.
C23_Witness ==
  /\ event = [h |-> "onStateChange", a |-> "local"] /\ playerState = "PLAYING"
  /\ currentTime = Half(3)
  /\ sent = <<[action |-> "play", data |-> JNum(<<"1", ".", "5">>)]>>

RECURSIVE EndedTimes(_, _)
\* The state after k videos in a row ended, from s.
EndedTimes(s, k) ==
  IF k = 0 THEN s ELSE StateChangeStep(EndedTimes(s, k - 1), "ENDED")

\* C24. No auto-loop: with autoplay on, slot i the selected one and the
\* queue left alone, the k-th ENDED in a row brings the page to the video of
\* slot i + k and marks that slot, up to the last slot; the ENDED after that
\* navigates nowhere and leaves the selection. This for every queue, those
\* with one videoId in several slots included.
C24_NoAutoLoop ==
  (Created /\ autoplay) =>
    \A i \in DOMAIN queue :
      SelectedSlots(queue) = {i} =>
        /\ \A k \in 1..(Len(queue) - i) :
             /\ EndedTimes(State, k).url.v = queue[i + k].videoId
             /\ (i + k) \in SelectedSlots(EndedTimes(State, k).queue)
        /\ EndedTimes(State, Len(queue) - i + 1).url
             = EndedTimes(State, Len(queue) - i).url
        /\ EndedTimes(State, Len(queue) - i + 1).queue
             = EndedTimes(State, Len(queue) - i).queue

\* C25. Player before channel: whenever the channel exists (connecting or
\* open) the player reference is set; a create() without a player reference
\* opens the channel exactly when it obtains the player, and a create() with
\* the player reference set changes nothing: the channel stays the one it
\* is, in the state it is, and the schedules are not started again.
C25_PlayerBeforeChannel ==
  /\ ws # "none" => ytPlayer # "null"
  /\ (InSession /\ ytPlayer = "null") =>
       \A got \in {"null", "player"} :
         /\ CreateStep(State, got).ytPlayer = got
         /\ CreateStep(State, got).ws # "none" <=> got # "null"
  /\ Created =>
       \A got \in {"null", "player"} :
         CreateStep(State, got) = Enter(State, "create", got)

\* C25 witness: create() has just been called again with the channel open:
\* the channel is still open and the player reference set.
C25_Witness ==
  /\ event = [h |-> "create", a |-> "player"]
  /\ ws = "open" /\ ytPlayer = "player" /\ Len(clients) = 1

\* C26. Promotion follows the broadcast: a promote (unpromote) request for a
\* client of the roster sends exactly one PROMOTE (UNPROMOTE) with its
\* socketId and leaves the roster as it is; the handling of an inbound
\* PROMOTE for its socketId leaves its promoted flag true, that of an
\* inbound UNPROMOTE leaves it false.
C26_PromotionFollowsBroadcast ==
  Open =>
    \A i \in DOMAIN clients :
      /\ PromoteStep(State, clients[i]).sent
           = <<[action |-> "promote", data |-> JStr(clients[i].socketId)]>>
      /\ UnpromoteStep(State, clients[i]).sent
           = <<[action |-> "unpromote", data |-> JStr(clients[i].socketId)]>>
      /\ PromoteStep(State, clients[i]).clients = clients
      /\ UnpromoteStep(State, clients[i]).clients = clients
      /\ MessageStep(State, Msg("promote", JStr(clients[i].socketId))).clients[i].promoted
      /\ ~MessageStep(State, Msg("unpromote", JStr(clients[i].socketId))).clients[i].promoted

\* C27. Single selected slot: in every reachable state at most one slot of
\* the queue is marked selected.
C27_SingleSelected == Cardinality(SelectedSlots(queue)) <= 1

\* C28. Unique roster identities: in every reachable state no two entries of
\* the roster have the same socketId.
C28_UniqueIdentities == DistinctIds(clients)

\* The users have no toggle left; no AUTOPLAY is in flight or held and the
\* two clients hold the same flag.
TogglesDone == session.toggles = 0
Agreed ==
  /\ session.toPeer = <<>> /\ session.toLocal = <<>>
  /\ session.heldLocal = <<>> /\ session.heldPeer = <<>>
  /\ autoplay = session.peer.autoplay

\* C29. Autoplay agreement: with two clients and the coordinator relaying
\* every AUTOPLAY to the other client in send order, once the users have
\* stopped toggling the session reaches a state with no AUTOPLAY in flight
\* and the same autoplay flag at both clients.
C29_AutoplayAgreement == TogglesDone ~> Agreed

\* C30. Connect handshake: on every 'connect' event, the first and each
\* reconnect, the client sends exactly three messages in this order,
\* ADD_TO_QUEUE(current video), PLAY_VIDEO(its videoId), AUTOPLAY(local
\* flag), the last one though the flag does not change, and queue, roster
\* and autoplay flag are as they were.
C30_ConnectHandshake ==
  Created =>
    \A video \in Videos :
      /\ ConnectStep(State, video).sent
           = <<[action |-> "add-to-queue", data |-> video],
               [action |-> "play-video", data |-> JStr(video.videoId)],
               [action |-> "autoplay", data |-> JBool(autoplay)]>>
      /\ ConnectStep(State, video).queue = queue
      /\ ConnectStep(State, video).clients = clients
      /\ ConnectStep(State, video).autoplay = autoplay

\* C30 witness: the channel has just come back after a drop (the roster of
\* the first connection is still there) with autoplay off, and the three
\* messages went out.
C30_Witness ==
  /\ event = [h |-> "onWsConnected", a |-> "connect"] /\ ws = "open"
  /\ Len(clients) = 2 /\ Len(sent) = 3 /\ ~autoplay
  /\ sent[3] = [action |-> "autoplay", data |-> JBool(FALSE)]
====
